---- MODULE Spec2Model ----
(***************************************************************************)
(* m1m-guardian: the session-state store client (store.py), the per-node   *)
(* batched firewall worker (firewall.py), the node watcher (watcher.py),   *)
(* the ssh layer (nodes.py) and the bootstrap (main.py).                   *)
(*                                                                         *)
(* The specifications share the variables:                                 *)
(*   SpecStore  sequential calls of add_ip on one slot;                    *)
(*   SpecMark   mark_banned, is_banned_recently and unmark_banned of one   *)
(*              address while the clock of the Redis server advances;      *)
(*   SpecFw     schedule_ban and the worker of one node;                   *)
(*   SpecShot   all four firewall operations and the worker;               *)
(*   Spec       the watchers of the fleet, step by step at every await,    *)
(*              on top of the store and of the firewall workers.           *)
(*   SpecEnsure ensure_rule against the packet filter of one node;         *)
(*   SpecOrder  schedule_ban and the worker, without failing batches;      *)
(*   SpecFd     the fd_unreadable bookkeeping and the automatic reboot;    *)
(*   SpecHostKey the handling of a changed host key by concurrent tasks;   *)
(*   SpecLine   one watcher reading lines with and without a limit;        *)
(*   SpecBoot   amain up to the start of the watchers;                     *)
(*   SpecRun    the watcher tasks under asyncio.gather;                    *)
(*   SpecRemote a remote command awaited over ssh, with fairness;          *)
(*   SpecParse  parse_line on access-log lines;                            *)
(*   SpecBatch  the ban notification batcher of a watcher, with fairness;  *)
(*   SpecAttach the attach notification over stream losses;                *)
(*   SpecStream the failure streak of stream_logs;                         *)
(*   SpecCache  the callers of ensure_rule and the cache _RULE_ENSURED;    *)
(*   SpecRace   two tasks running the script of ensure_rule on one node;   *)
(*   SpecBackend ensure_rule on nodes with iptables and with nft;          *)
(*   SpecRecover the attach notification with the fd_unreadable counters;  *)
(*   SpecHealth check_firewall_status after ensure_rule;                   *)
(*   SpecUnban  the operator's unban against the worker of a node;         *)
(*   SpecLive   schedule_ban and the worker on a node whose batches        *)
(*              succeed, with fairness;                                    *)
(*   SpecDrop   schedule_ban and the worker with failing and raising       *)
(*              batches;                                                   *)
(*   SpecOwn    the watchers on slots with the limits 0 and 1.             *)
(***************************************************************************)
EXTENDS Integers, Sequences, FiniteSets, TLC

(***************************************************************************)
(* Addresses.  An address is the tuple of the numbers of its textual form  *)
(* (4 decimal octets, or 8 hextets; the "::" compression is not modelled). *)
(* The parser's pattern \d{1,3}(\.\d{1,3}){3} lets 10.0.0.256 through, so  *)
(* the store can hold text that is no address.  The tuples are chosen so   *)
(* that their lexicographic order is the byte order of their text, which   *)
(* is the order Redis uses among members of equal score.                   *)
(***************************************************************************)
A1 == <<10, 0, 0, 1>>
A2 == <<10, 0, 0, 2>>
A6 == <<8193, 3512, 0, 0, 0, 0, 0, 1>>
BadAddr == <<10, 0, 0, 256>>

Addrs == {A1, A2, A6, BadAddr}

Min(a, b) == IF a < b THEN a ELSE b
Max(a, b) == IF a > b THEN a ELSE b
Range(s) == {s[i] : i \in 1..Len(s)}
SetMax(S) == CHOOSE x \in S : \A y \in S : y <= x

IsIPv4(ip) == Len(ip) = 4 /\ \A i \in 1..Len(ip) : ip[i] \in 0..255
IsIPv6(ip) == Len(ip) = 8 /\ \A i \in 1..Len(ip) : ip[i] \in 0..65535

\* ipaddress.ip_address(ip) does not raise ValueError (the lax variant
\* only counts the groups, as the parser's pattern does)
ip_address_lax(ip) == Len(ip) \in {4, 8}
ip_address_ok(ip) == IsIPv4(ip) \/ IsIPv6(ip)

_is_ipv6(ip) == ip_address_ok(ip) /\ IsIPv6(ip)

\* byte order of two member strings
LexLess(a, b) ==
    \/ \E i \in 1..Min(Len(a), Len(b)) :
          a[i] < b[i] /\ \A j \in 1..(i - 1) : a[j] = b[j]
    \/ Len(a) < Len(b) /\ \A j \in 1..Len(a) : a[j] = b[j]

(***************************************************************************)
(* Configuration: the slots (inbound, user) the log lines name, the limit  *)
(* of each inbound, the ban duration.                                      *)
(***************************************************************************)
K1 == <<"VMESS_TCP", "u1">>
K2 == <<"VLESS_WS", "u2">>
Keys == {K1, K2}
\* a slot of an inbound whose configured limit is 0
K0 == <<"TROJAN_WS", "u1">>
SlotKeys == Keys \cup {K0}

limits == [VMESS_TCP |-> 1, VLESS_WS |-> 2, TROJAN_WS |-> 0]
LimitOf(key) == limits[key[1]]

ban_minutes == 1
BanSeconds == ban_minutes * 60

\* bounds of the exploration
MaxClock == 3
ClockStep == 30
MaxTime == 120
\* the TTLs the callers of SpecMark and SpecFw pass
Ttls == {BanSeconds \div 2, BanSeconds}

(***************************************************************************)
(* The Redis commands the client uses.  A sorted set is a function from    *)
(* Addrs to scores, 0 for a member that is absent (scores are positive).   *)
(***************************************************************************)
EmptyZ == [a \in Addrs |-> 0]
ZMembers(z) == {a \in Addrs : z[a] > 0}
ZAdd(z, ip, ts) == [z EXCEPT ![ip] = ts]
ZCard(z) == Cardinality(ZMembers(z))
ZBefore(z, a, b) == z[a] < z[b] \/ (z[a] = z[b] /\ LexLess(a, b))
ZRank(z, a) == Cardinality({b \in ZMembers(z) : ZBefore(z, b, a)})
\* zrange(key, 0, hi): the members of rank 0..hi, lowest score first
ZRange(z, hi) ==
    [i \in 1..Min(hi + 1, ZCard(z)) |->
        CHOOSE a \in ZMembers(z) : ZRank(z, a) = i - 1]
ZRem(z, S) == [a \in Addrs |-> IF a \in S THEN 0 ELSE z[a]]
ZScore(z, ip) == z[ip]

\* add_ip: k = count - limit
TrimCountOff(count, limit) == count - limit - 1
TrimCount(count, limit) == count - limit

\* add_ip: the members to remove once the address is recorded
OldOf(z, limit) ==
    IF ZCard(z) > limit THEN ZRange(z, TrimCount(ZCard(z), limit) - 1) ELSE <<>>

\* add_ip: second component of the result
FlagOf(count, evicted, z, ip) ==
    count > 0 /\ evicted = <<>> /\ ZScore(z, ip) # 0

\* setex / exists / delete on the banned:<ip> keys; a key holds its expiry
\* instant; setex refuses a TTL that is not positive
SetEx(b, ip, seconds, t) == [b EXCEPT ![ip] = t + seconds]
ExistsNoExpiry(b, ip, t) == b[ip] > 0
Exists(b, ip, t) == b[ip] > t
Delete(b, ip) == [b EXCEPT ![ip] = 0]

\* mark_banned: the marker after the call; an error of setex is swallowed
mark_banned(b, ip, seconds, t, storeOk) ==
    IF storeOk /\ seconds > 0 THEN SetEx(b, ip, seconds, t) ELSE b

\* is_banned_recently: the result; an error of exists gives False
is_banned_recently(b, ip, t, storeOk) ==
    IF storeOk THEN Exists(b, ip, t) ELSE FALSE

(***************************************************************************)
(* The firewall layer.  MAX_PENDING (20000) and MAX_BATCH (500) are scaled *)
(* down; every guard reads them by name.                                   *)
(***************************************************************************)
Nodes == {"n1", "n2"}
\* all_nodes, in configuration order
all_nodes == <<"n1", "n2">>

\* MAX_PENDING (20,000) and MAX_BATCH (500), scaled down; MAX_BATCH stays
\* below MAX_PENDING, so that a slot can hold more than one batch
MAX_PENDING == 2
MAX_BATCH == 1


\* _BanItem.__init__; top is the largest TTL submitted for the entry so far
\* (history, not read by the program)
BanItem(ip, ttl) == [ip |-> ip, ttl |-> Max(1, ttl), top |-> ttl]

\* st.pending is a dict: a sequence of items in insertion order, one per key
PendingIps(p) == {p[i].ip : i \in 1..Len(p)}
PendingIdx(p, ip) == CHOOSE i \in 1..Len(p) : p[i].ip = ip
PendingGet(p, ip) == p[PendingIdx(p, ip)]

\* schedule_ban: len(st.pending) >= MAX_PENDING
AtCapOff(n) == n > MAX_PENDING
AtCap(n) == n >= MAX_PENDING

\* schedule_ban: if seconds > cur.ttl: cur.ttl = seconds
RaiseTtlOff(cur, seconds) == seconds
RaiseTtl(cur, seconds) == IF seconds > cur THEN seconds ELSE cur

\* schedule_ban, under st.lock: the result and the pending slot afterwards
ScheduleAccepts(p, ip, seconds) ==
    ip \in PendingIps(p) \/ ~AtCap(Len(p))

ScheduleInto(p, ip, seconds) ==
    IF ip \in PendingIps(p)
    THEN [p EXCEPT ![PendingIdx(p, ip)] =
              [@ EXCEPT !.ttl = RaiseTtl(@, seconds), !.top = Max(@, seconds)]]
    ELSE IF AtCap(Len(p)) THEN p
    ELSE Append(p, BanItem(ip, seconds))

\* ensure_rule: _RULE_ENSURED afterwards; outcome is what the remote scripts
\* do: "ok" (verified), "failed" (verification failed), "raise" (the remote
\* command could not be run), "cached" when they are not run
EnsureRuns(ens, n, force) == force \/ n \notin ens
EnsureOutcomes(ens, n, force) ==
    IF EnsureRuns(ens, n, force) THEN {"ok", "failed", "raise"} ELSE {"cached"}
ensure_rule(ens, n, force, outcome) ==
    IF EnsureRuns(ens, n, force) /\ outcome = "ok" THEN ens \cup {n} ELSE ens
EnsureRaises(ens, n, force, outcome) ==
    EnsureRuns(ens, n, force) /\ outcome = "raise"

\* _worker_loop: popitem() min(MAX_BATCH, len) times takes the newest first
DrainCount(p) == Min(MAX_BATCH, Len(p))
DrainItems(p) == [i \in 1..DrainCount(p) |-> p[Len(p) - i + 1]]
DrainRest(p) == SubSeq(p, 1, Len(p) - DrainCount(p))

\* _apply_batch, rc != 0: one item put back, keeping the larger TTL (the
\* overwriting variant puts the item back whatever is pending)
ReinsertOneOverwrite(p, it) ==
    IF it.ip \notin PendingIps(p) THEN Append(p, it)
    ELSE [p EXCEPT ![PendingIdx(p, it.ip)] = it]
ReinsertOne(p, it) ==
    IF it.ip \notin PendingIps(p) THEN Append(p, it)
    ELSE LET cur == PendingGet(p, it.ip)
         IN  [p EXCEPT ![PendingIdx(p, it.ip)] =
                 [ip  |-> it.ip,
                  ttl |-> IF it.ttl > cur.ttl THEN it.ttl ELSE cur.ttl,
                  top |-> Max(cur.top, it.top)]]

RECURSIVE Reinsert(_, _)
Reinsert(p, items) ==
    IF items = <<>> THEN p
    ELSE Reinsert(ReinsertOne(p, Head(items)), Tail(items))

\* the timed sets of a node after a batch went in: add ... timeout ttl -exist
KernelAdd(k, items) == k \cup {items[i].ip : i \in 1..Len(items)}

(***************************************************************************)
(* The packet filter of a node as the scripts of ensure_rule see it: the   *)
(* timed sets and, per address family, the rules that name them in the     *)
(* chains DOCKER-USER, INPUT and FORWARD.  The iptables branch of the      *)
(* scripts is modelled (a node with iptables takes it even when nft is     *)
(* there too), and the branch of a node without any backend.  root says    *)
(* whether ssh_user is root: the scripts prefix $SUDO to the commands that *)
(* change the filter and to ipset, not to $IPT -C and $IPT -S, and         *)
(* iptables refuses to read the filter for a user that is not root.        *)
(***************************************************************************)
Families == {"v4", "v6"}
Chains == {"DOCKER-USER", "INPUT", "FORWARD"}
SetNames == [v4 |-> "m1m_guardian", v6 |-> "m1m_guardian6"]

\* the three rules of a chain, by the position -I gives them
RuleOf == <<"tcp-reset", "udp-reject", "drop">>

\* bound: the ensure calls of one behaviour
MaxEnsure == 3

NoChains == [f \in Families |-> [c \in Chains |-> <<>>]]

\* a node the scripts have not run on; first keeps what the first run of
\* the scripts left, once ran says there was one
NoHost ==
    [backend |-> "NONE", root |-> TRUE, docker |-> FALSE,
     sets |-> {}, chains |-> NoChains,
     calls |-> 0, ran |-> FALSE, first |-> [sets |-> {}, chains |-> NoChains]]

\* $IPT -I chain pos rule: refused when pos is beyond the end of the chain
Insert(q, pos, r) ==
    IF pos > Len(q) + 1 THEN q
    ELSE SubSeq(q, 1, pos - 1) \o <<r>> \o SubSeq(q, pos, Len(q))

\* $IPT -C chain rule (no $SUDO)
IptCheck(h, f, c, r) == h.root /\ r \in Range(h.chains[f][c])

\* $IPT -C chain rule 2>/dev/null || $SUDO $IPT -I chain pos rule
IptEnsureRule(h, f, c, pos) ==
    IF IptCheck(h, f, c, RuleOf[pos]) THEN h
    ELSE [h EXCEPT !.chains[f][c] = Insert(@, pos, RuleOf[pos])]

IptEnsureChain(h, f, c) ==
    IptEnsureRule(IptEnsureRule(IptEnsureRule(h, f, c, 1), f, c, 2), f, c, 3)

\* if $IPT -S DOCKER-USER >/dev/null 2>&1 (no $SUDO)
SeesDockerUser(h) == h.root /\ h.docker

\* the rules of one family: DOCKER-USER if it is seen, else INPUT and FORWARD
IptFamily(h, f) ==
    IF SeesDockerUser(h) THEN IptEnsureChain(h, f, "DOCKER-USER")
    ELSE IptEnsureChain(IptEnsureChain(h, f, "INPUT"), f, "FORWARD")

\* $SUDO ipset list S || $SUDO ipset create S ...
CreateSets(h) == [h EXCEPT !.sets = @ \cup {SetNames[f] : f \in Families}]

\* nft list ruleset | grep -q 'chain C' && nft list ruleset | grep -q rule:
\* both greps read the whole ruleset, so a rule of the family in any chain
\* answers for the chain C (the base chains exist by then)
NftSeesRule(h, f, r) == \E c \in Chains : r \in Range(h.chains[f][c])

\* ... || $SUDO nft insert rule inet filter C rule: at the head of the
\* chain; every insert is taken as accepted by nft
NftEnsureRule(h, f, c, pos) ==
    IF NftSeesRule(h, f, RuleOf[pos]) THEN h
    ELSE [h EXCEPT !.chains[f][c] = <<RuleOf[pos]>> \o @]

NftEnsureChain(h, f, c) ==
    NftEnsureRule(NftEnsureRule(NftEnsureRule(h, f, c, 1), f, c, 2), f, c, 3)

\* nft list chain inet filter DOCKER-USER (with $SUDO)
NftFamilies(h) ==
    IF h.docker
    THEN NftEnsureChain(NftEnsureChain(h, "v4", "DOCKER-USER"), "v6", "DOCKER-USER")
    ELSE NftEnsureChain(NftEnsureChain(
            NftEnsureChain(NftEnsureChain(h, "v4", "INPUT"), "v4", "FORWARD"),
                "v6", "INPUT"), "v6", "FORWARD")

\* the first script of ensure_rule (inner)
MainScript(h) ==
    IF h.backend = "IPTABLES"
    THEN IptFamily(IptFamily(CreateSets(h), "v4"), "v6")
    ELSE IF h.backend = "NFT" THEN NftFamilies(CreateSets(h))
    ELSE h

\* verify_script: $IPT -S <chain> | grep -q SET_V4, for the three chains
SeesRules(h) == h.root /\ \E c \in Chains : h.chains["v4"][c] # <<>>

\* verify_script, RULES_OK = 0: the rules are inserted without a test
Remediate(h) ==
    IF SeesDockerUser(h)
    THEN [h EXCEPT !.chains["v4"]["DOCKER-USER"] =
             Insert(Insert(Insert(@, 1, RuleOf[1]), 2, RuleOf[2]), 3, RuleOf[3])]
    ELSE [h EXCEPT !.chains["v4"]["INPUT"] = Insert(@, 1, RuleOf[3]),
                   !.chains["v4"]["FORWARD"] = Insert(@, 1, RuleOf[3])]

\* verify_script, "Verify again": DOCKER-USER or INPUT
SeesFixed(h) ==
    h.root /\ (h.chains["v4"]["DOCKER-USER"] # <<>> \/ h.chains["v4"]["INPUT"] # <<>>)

\* verify_script reaches its remediation
VerifyReachesRules(h) ==
    h.backend = "IPTABLES" /\ SetNames["v4"] \in h.sets

\* the node after verify_script
VerifyScript(h) ==
    IF VerifyReachesRules(h) /\ ~SeesRules(h) THEN Remediate(h) ELSE h

\* VERIFY_OK, VERIFY_FIXED or VERIFY_COMPLETE is in the output
Verified(h) ==
    \/ VerifyReachesRules(h) /\ (SeesRules(h) \/ SeesFixed(Remediate(h)))
    \/ /\ h.backend = "NFT"
       /\ SetNames["v4"] \in h.sets
       /\ \E c \in Chains : h.chains["v4"][c] # <<>>

\* check_firewall_status: the result dict, from what check_script prints
\* (its $IPT -S and ipset list run with $SUDO)
check_firewall_status(h) ==
    LET sets_exist    == SetNames["v4"] \in h.sets
        has_docker    == h.docker
        rules_input   == h.chains["v4"]["INPUT"] # <<>>
        rules_forward == h.chains["v4"]["FORWARD"] # <<>>
        rules_docker  == h.docker /\ h.chains["v4"]["DOCKER-USER"] # <<>>
        rules_exist   ==
            IF h.backend = "IPTABLES"
            THEN rules_input /\ (IF has_docker THEN rules_docker ELSE rules_forward)
            ELSE IF h.backend = "NFT"
            THEN \E c \in Chains : h.chains["v4"][c] # <<>>
            ELSE FALSE
    IN  [op |-> "check_firewall_status",
         sets_exist |-> h.backend \in {"IPTABLES", "NFT"} /\ sets_exist,
         rules_exist |-> rules_exist,
         ok |-> h.backend \in {"IPTABLES", "NFT"} /\ sets_exist /\ rules_exist]

\* both scripts of ensure_rule, one after the other
EnsureScripts(h) == VerifyScript(MainScript(h))

VARIABLES
    zset,       \* key -> sorted set of the slot a:<inbound>:<email>
    clock,      \* last reading of time.time() by add_ip (rank of the instant)
    banned,     \* address -> expiry instant of banned:<ip>, 0 when absent
    rnow,       \* clock of the Redis server, in seconds
    hist,       \* history of the add_ip calls on the slot hist.key (SpecStore)
    marks,      \* history of the marker calls (SpecMark)
    ret,        \* the result of the call that was the last step, if it was one
    pending,    \* node -> st.pending
    inflight,   \* node -> the items of the batch the worker is applying
    wpc,        \* node -> "none" (no worker yet), "wait", "apply"
    ensured,    \* _RULE_ENSURED
    kset,       \* node -> the addresses that are elements of its timed sets
    w,          \* node -> its NodeWatcher: position in run() and locals
    host,       \* the packet filter of the node ensure_rule is run against
    fd,         \* the fd_unreadable fields of one NodeWatcher, and time.time()
    fdh,        \* history of that watcher: sentinel instants, reboot instants
    hk,         \* _hostkey_cleared, the tasks that met a changed host key,
                \* and what was done per host
    stats,      \* the line counters _lines and _parsed of one NodeWatcher
    boot,       \* amain: its position, what it found, what it started
    tasks,      \* the run() tasks of the watchers under asyncio.gather
    rop,        \* the remote command a caller is awaiting, if any
    pl,         \* the line handed to parse_line and what it returned
    nb,         \* the notification batcher of one watcher, and what it sent
    att,        \* whether the stream follows a process, attaches and "attached" notices
    sl,         \* stream_logs of one node: position, failure streak, last sleep and last end
    callers,    \* main: the startup loop over the nodes, then the running engine
    race,       \* the tasks that are inside ensure_rule for one node
    unb         \* addresses an operator unban has completed for, until banned again

storeVars == <<zset, clock, banned, rnow>>
histVars == <<hist, marks>>
fwVars == <<pending, inflight, wpc, ensured, kset>>
watchVars == <<w>>
envVars == <<host, fd, fdh, hk, stats, boot, tasks, rop, pl, nb, att, sl,
             callers, race, unb>>
vars == <<zset, clock, banned, rnow, hist, marks, ret,
          pending, inflight, wpc, ensured, kset, w, host, fd, fdh, hk,
          stats, boot, tasks, rop, pl, nb, att, sl, callers, race, unb>>

NoRet == [op |-> "none"]

\* a watcher between two log lines; failed and acts tell how the last line
\* went: add_ip failed, and the schedule_ban, mark_banned and batcher calls
\* made for it
IdleWatcher ==
    [pc |-> "idle", key |-> K1, ip |-> A1, ts |-> 0, k |-> 0, old |-> <<>>,
     ev |-> <<>>, cur |-> A1, idx |-> 0, called |-> {},
     success_nodes |-> <<>>, failed_nodes |-> <<>>,
     failed |-> FALSE, acts |-> 0,
     ban_batch |-> <<>>, sent_before |-> FALSE]

\* the sequence q without the elements of S
Without(q, S) == SelectSeq(q, LAMBDA x : x \notin S)
\* the position of a in q, 0 when it does not occur
Pos(q, a) == IF a \in Range(q) THEN CHOOSE i \in 1..Len(q) : q[i] = a ELSE 0

\* hist.inserted: the members of the slot in the order they entered it;
\* hist.written: the addresses in the order of their last zadd
InitHist(key) ==
    [key      |-> key,
     observed |-> {},
     lastSeen |-> EmptyZ,
     evicted  |-> {},
     tied     |-> FALSE,
     lapsed   |-> FALSE,
     inserted |-> <<>>,
     written  |-> <<>>]

NoMark(ip) ==
    [ip |-> ip, at |-> 0, ttl |-> 0, stored |-> FALSE, live |-> FALSE,
     hit |-> FALSE]

(***************************************************************************)
(* The fd_unreadable bookkeeping of one NodeWatcher.  Instants are whole   *)
(* minutes of time.time(); 0 is the constructor's "never".  The fields     *)
(* belong to one watcher and no other watcher reads them.                  *)
(***************************************************************************)
THRESHOLD == 3      \* sentinels that schedule a reboot (10 in the source)
COOLDOWN == 20      \* 20*60 seconds
GRACE == 1          \* 60 seconds
FdWindow == 10      \* 600 seconds
FdHorizon == 23     \* minutes of wall clock that are explored
MaxCount == THRESHOLD + 1
\* time.time() is seconds since 1970: the first reading is past any cooldown
StartNow == COOLDOWN + 1
MaxNow == StartNow + FdHorizon

\* NodeWatcher.__init__
InitWatcherFd ==
    [now |-> StartNow, _fd_unreadable_count |-> 0, _fd_last_reboot |-> 0,
     _fd_window_start |-> 0, _fd_reboot_scheduled_at |-> 0,
     _up_notified |-> FALSE]

NoFdHist == [seen |-> <<>>, issued |-> <<>>]

\* run, the 'follow pid=' branch
Attached(f) ==
    [f EXCEPT !._fd_reboot_scheduled_at = 0, !._up_notified = TRUE,
              !._fd_unreadable_count = 0, !._fd_window_start = f.now]

\* run, the 'fd_unreadable' branch up to the call of _maybe_reboot_for_fd
Counted(f) ==
    LET g == IF f._fd_window_start = 0 \/ f.now - f._fd_window_start > FdWindow
             THEN [f EXCEPT !._fd_window_start = f.now,
                            !._fd_unreadable_count = 0,
                            !._fd_reboot_scheduled_at = 0]
             ELSE f
    IN  [g EXCEPT !._fd_unreadable_count = @ + 1]

\* _maybe_reboot_for_fd: the cooldown test (the short variant lets a reboot
\* through at exactly COOLDOWN)
CoolingDownShort(f) == f.now - f._fd_last_reboot < COOLDOWN
CoolingDown(f) == f.now - f._fd_last_reboot <= COOLDOWN

\* _maybe_reboot_for_fd: the grace test (the late variant ends the grace
\* with the scheduling call itself)
InGraceNever(f) == FALSE
InGrace(f) == f.now - f._fd_reboot_scheduled_at < GRACE

\* _maybe_reboot_for_fd: "schedule", "wait", "cooldown", "reboot" or "none"
FdDecision(f) ==
    IF f._fd_unreadable_count < THRESHOLD THEN "none"
    ELSE IF f._fd_reboot_scheduled_at = 0 THEN "schedule"
    ELSE IF InGrace(f) THEN "wait"
    ELSE IF CoolingDown(f) THEN "cooldown"
    ELSE "reboot"

\* _maybe_reboot_for_fd: the fields it leaves
MaybeReboot(f) ==
    CASE FdDecision(f) = "schedule" ->
            [f EXCEPT !._fd_reboot_scheduled_at = f.now]
      [] FdDecision(f) = "reboot" ->
            [f EXCEPT !._fd_last_reboot = f.now, !._fd_unreadable_count = 0,
                      !._fd_window_start = f.now,
                      !._fd_reboot_scheduled_at = 0]
      [] OTHER -> f

\* the last k elements of q
LastOf(q, k) == IF Len(q) <= k THEN q ELSE SubSeq(q, Len(q) - k + 1, Len(q))

(***************************************************************************)
(* Host-key rotation: the node descriptors, two of them on one host, each  *)
(* with the task (connectivity probe or log stream) that reads ssh output. *)
(***************************************************************************)
Descriptors == {"d1", "d2", "d3"}
HostOf(d) == IF d = "d3" THEN "h2" ELSE "h1"
Hosts == {"h1", "h2"}
MaxMismatch == 2    \* changed-host-key outputs one descriptor's tasks read

\* module load: _hostkey_cleared = set(); no task is inside a handler
InitHk ==
    [cleared  |-> {},
     pc       |-> [d \in Descriptors |-> "idle"],
     met      |-> [d \in Descriptors |-> 0],
     detected |-> [h \in Hosts |-> 0],
     removals |-> [h \in Hosts |-> 0],
     plain    |-> [h \in Hosts |-> 0]]

\* the process before amain runs: nothing loaded, nothing started
InitBoot ==
    [pc |-> "load", nodes |-> 0, redis |-> "untested", notifier |-> FALSE,
     firewall_results |-> <<>>, watchers |-> 0, exit |-> "running"]

\* asyncio.gather(*watchers) has just been awaited: every run() is at its
\* first statement
InitTasks ==
    [proc |-> "running",
     t |-> [n \in Nodes |-> [pc |-> "ensure", backoff |-> 1]]]

\* no remote command has been issued yet
InitRemote ==
    [pc |-> "idle", kind |-> "none", remote |-> "answers", done |-> 0,
     rc |-> 0]

(***************************************************************************)
(* parser.py.  A line is the sequence of its fields; a field is a record   *)
(* [k, v]: k is what the pattern RX can tell about it and v its words.     *)
(*   "from" "accepted" "rejected" "email:"   the literal words             *)
(*   "addr4"  a dotted quad followed by :port        203.0.113.5:48290     *)
(*   "addr6"  a bracketed IPv6 text followed by :port [2001:db8::1]:48290  *)
(*   "br"     any other bracketed text               [VMESS_TCP -> IPv4]   *)
(*   "word"   anything else without blanks           tcp:example.com:443   *)
(***************************************************************************)
Field(k, v) == [k |-> k, v |-> v]
NoMatch == [found |-> FALSE, email |-> <<>>, ip |-> <<>>, inbound |-> <<>>]

\* the index of the first occurrence of x in q, 0 when there is none
FirstPos(q, x) ==
    IF x \in Range(q) THEN CHOOSE i \in 1..Len(q) : q[i] = x /\ \A j \in 1..(i - 1) : q[j] # x ELSE 0
\* s.split(sep, 1)[0]
SplitHead(q, sep) ==
    IF sep \in Range(q) THEN SubSeq(q, 1, FirstPos(q, sep) - 1) ELSE q

\* inbound_from_br: the words before the first "->", of those the words
\* before the first ">>", stripped; "default" when nothing is left
inbound_from_br(s) ==
    LET t == SplitHead(SplitHead(s, "->"), ">>")
    IN  IF t = <<>> THEN <<"default">> ELSE t

\* RX.search(line): the matches (i, j, k, l) of the pattern: "from" at i
\* with the address right after it, "accepted" at j, a bracketed text at k,
\* "email:" at l with a field after it
RxMatches(line) ==
    {m \in (1..Len(line)) \X (1..Len(line)) \X (1..Len(line)) \X (1..Len(line)) :
        /\ m[1] + 1 < m[2] /\ m[2] < m[3] /\ m[3] < m[4] /\ m[4] < Len(line)
        /\ line[m[1]].k = "from"
        /\ line[m[1] + 1].k \in {"addr4", "addr6"}
        /\ line[m[2]].k = "accepted"
        /\ line[m[3]].k \in {"br", "addr6"}
        /\ line[m[4]].k = "email:"}

\* m comes before n: the search takes the leftmost start and every .*? as
\* short as it can
RxBefore(m, n) ==
    \E d \in 1..4 : m[d] < n[d] /\ \A e \in 1..(d - 1) : m[e] = n[e]

\* parse_line
parse_line(line) ==
    IF RxMatches(line) = {} THEN NoMatch
    ELSE LET m == CHOOSE x \in RxMatches(line) :
                     \A y \in RxMatches(line) \ {x} : RxBefore(x, y)
         IN  [found |-> TRUE,
              email |-> line[m[4] + 1].v,
              ip |-> line[m[1] + 1].v,
              inbound |-> inbound_from_br(line[m[3]].v)]

\* no line has been read
InitParse == [line |-> <<>>, parsed |-> FALSE, out |-> NoMatch]

(***************************************************************************)
(* The notification batcher of one NodeWatcher.  An event is the number of *)
(* its detection; since is min(now - _ban_batch_last_sent, the window), in *)
(* seconds.                                                                *)
(***************************************************************************)
\* _ban_batch_max
BanBatchMax == 10

\* _ban_batch_window, in seconds
BanBatchWindow == 5
MaxEvents == 11     \* ban events handed to the batcher

\* __init__: _ban_batch = [], _ban_batch_last_sent = 0.0
InitBatcher ==
    [_ban_batch |-> <<>>, since |-> BanBatchWindow, handed |-> 0,
     sent |-> <<>>]

\* _add_ban_to_batch: should_flush, once the event is appended
ShouldFlush(batch, since) ==
    Len(batch) >= BanBatchMax \/ since >= BanBatchWindow

\* _add_ban_to_batch: self._ban_batch after the snapshot was taken (the
\* keeping variant leaves the events in it)
BatchAfterFlushKept(batch) == batch
BatchAfterFlush(batch) == <<>>

\* the node as its watcher's stream sees it: nothing followed yet, no
\* attach and no "attached" message so far
InitAttach == [following |-> FALSE, attaches |-> 0, notices |-> 0]

(***************************************************************************)
(* stream_logs of one node: its failure streak.  An exit status is 0,      *)
(* "nonzero" or "none" (returncode not set when the stream is left).       *)
(***************************************************************************)
ShortUptime == 10   \* seconds
MaxStreak == 16

ExitStatuses == {"zero", "nonzero", "none"}
Uptimes == {0, ShortUptime - 1, ShortUptime, ShortUptime + 1, 60}

\* stream_logs, before its loop
InitStream ==
    [pc |-> "top", failure_streak |-> 0, slept |-> 0, rc |-> "none",
     uptime |-> 0]

\* stream_logs, the finally block: the streak it leaves
StreakAfter(streak, rc, uptime) ==
    IF rc \notin {"zero", "none"}
    THEN IF uptime < ShortUptime THEN streak + 1 ELSE 0
    ELSE 0

(***************************************************************************)
(* The callers of ensure_rule over the life of the process.  _RULE_ENSURED *)
(* is keyed by "host:ssh_port": two configured nodes on one machine (two   *)
(* containers) share a key.                                                *)
(***************************************************************************)
ConfiguredNodes == <<"n1", "n2", "n3", "n4">>

\* key = f"{spec.host}:{spec.ssh_port}"
KeyOf(n) ==
    IF n \in {"n1", "n2"} THEN "h1:22" ELSE IF n = "n3" THEN "h2:22" ELSE "h3:22"

\* main: the startup loop has not begun
InitCallers == [phase |-> "startup", next |-> 1]

(***************************************************************************)
(* Two tasks inside ensure_rule for the same node at once.  Each remote    *)
(* script is a shell of its own: `$IPT -C ... || $SUDO $IPT -I ...` is two *)
(* commands, and a command of the other shell can run between them.       *)
(***************************************************************************)
EnsureTasks == {"t1", "t2"}

\* the rules the inner script tests and inserts, in its order
ScriptSteps(h) ==
    LET cs == IF SeesDockerUser(h) THEN <<"DOCKER-USER">>
              ELSE <<"INPUT", "FORWARD">>
        fs == <<"v4", "v6">>
    IN  [i \in 1..(Len(fs) * Len(cs) * 3) |->
            [f   |-> fs[((i - 1) \div (Len(cs) * 3)) + 1],
             c   |-> cs[(((i - 1) \div 3) % Len(cs)) + 1],
             pos |-> ((i - 1) % 3) + 1]]

\* no task has called ensure_rule yet
InitRace == [t \in EnsureTasks |-> [pc |-> "call", step |-> 1, miss |-> FALSE]]

InitCore(key, ip) ==
    /\ zset = [k \in SlotKeys |-> EmptyZ]
    /\ clock = 0
    /\ banned = [a \in Addrs |-> 0]
    /\ rnow = 0
    /\ hist = InitHist(key)
    /\ marks = NoMark(ip)
    /\ ret = NoRet
    /\ pending = [n \in Nodes |-> <<>>]
    /\ inflight = [n \in Nodes |-> <<>>]
    /\ wpc = [n \in Nodes |-> "none"]
    /\ ensured = {}
    /\ kset = [n \in Nodes |-> {}]
    /\ w = [n \in Nodes |-> IdleWatcher]
    /\ fd = InitWatcherFd
    /\ fdh = NoFdHist
    /\ hk = InitHk
    /\ stats = [_lines |-> 0, _parsed |-> 0]
    /\ boot = InitBoot
    /\ tasks = InitTasks
    /\ rop = InitRemote
    /\ pl = InitParse
    /\ nb = InitBatcher
    /\ att = InitAttach
    /\ sl = InitStream
    /\ callers = InitCallers
    /\ race = InitRace
    /\ unb = {}

Init0(key, ip) ==
    /\ InitCore(key, ip)
    /\ host = NoHost

(***************************************************************************)
(* SpecStore: one caller, one add_ip call at a time, on the slot hist.key; *)
(* no store failure inside add_ip.                                         *)
(***************************************************************************)
\* a whole add_ip call; dt = 0 when time.time() reads the instant it read last
AddIpCall(key, ip, dt) ==
    LET ts == clock + dt
        z1 == ZAdd(zset[key], ip, ts)
        count == ZCard(z1)
        old == OldOf(z1, LimitOf(key))
        z2 == IF old # <<>> THEN ZRem(z1, Range(old)) ELSE z1
    IN  /\ key = hist.key
        /\ ts >= 1 /\ ts <= MaxClock
        /\ clock' = ts
        /\ zset' = [zset EXCEPT ![key] = z2]
        /\ hist' = [hist EXCEPT
                      !.observed = @ \cup {ip},
                      !.lastSeen[ip] = ts,
                      !.evicted = @ \cup Range(old),
                      !.tied = @ \/ (\E a \in Addrs \ {ip} : hist.lastSeen[a] = ts),
                      !.inserted =
                          Without(IF ip \in ZMembers(zset[key]) THEN @
                                  ELSE Append(@, ip), Range(old)),
                      !.written = Append(Without(@, {ip}), ip)]
        /\ ret' = [op |-> "add_ip", key |-> key, ip |-> ip, evicted |-> old,
                   flag |-> FlagOf(count, old, z2, ip),
                   before |-> ZMembers(zset[key]),
                   order |-> IF ip \in ZMembers(zset[key]) THEN hist.inserted
                             ELSE Append(hist.inserted, ip)]
        /\ UNCHANGED <<banned, rnow, marks, fwVars, watchVars, envVars>>

\* six idle hours pass on a slot: expire(key, 3600*6) lets Redis drop the key
SlotRetention(key) ==
    /\ key = hist.key
    /\ zset[key] # EmptyZ
    /\ zset' = [zset EXCEPT ![key] = EmptyZ]
    /\ hist' = [hist EXCEPT !.lapsed = TRUE, !.inserted = <<>>]
    /\ ret' = NoRet
    /\ UNCHANGED <<clock, banned, rnow, marks, fwVars, watchVars, envVars>>

NextStore ==
    \/ \E key \in Keys, ip \in Addrs, dt \in {0, 1} : AddIpCall(key, ip, dt)
    \/ \E key \in Keys : SlotRetention(key)

InitStore == \E key \in Keys : Init0(key, A1)

SpecStore == InitStore /\ [][NextStore]_vars

(***************************************************************************)
(* C1                                                                      *)
(***************************************************************************)
SlotOf == ZMembers(zset[hist.key])
DistinctSeen == Cardinality(hist.observed)

\* the addresses that have at least `limit` addresses seen strictly later
StrictlyOlder ==
    {a \in hist.observed :
        Cardinality({b \in hist.observed : hist.lastSeen[b] > hist.lastSeen[a]})
            >= LimitOf(hist.key)}

\* the same, equal timestamps being ordered as Redis orders the members
RankedOut ==
    {a \in hist.observed :
        Cardinality({b \in hist.observed : ZBefore(hist.lastSeen, a, b)})
            >= LimitOf(hist.key)}

\* C1 as stated: after n sequential add-address calls naming k distinct
\* addresses the slot holds min(k, limit) addresses and the union of the
\* evicted lists is exactly the set of addresses whose last-seen timestamp is
\* older than those of the `limit` most recently seen addresses.  (Read with
\* distinct timestamps and no retention lapse between the calls.)
C1_AsStated ==
    (ret.op = "add_ip" /\ ~hist.lapsed /\ ~hist.tied) =>
        /\ Cardinality(SlotOf) = Min(DistinctSeen, LimitOf(hist.key))
        /\ hist.evicted = StrictlyOlder

\* C1 amended: while the slot's retention has not lapsed, after n sequential
\* add-address calls naming k distinct addresses the slot holds exactly
\* min(k, limit) addresses, each with its last-seen timestamp; the addresses
\* named so far that are absent from the slot are exactly those ranked below
\* the `limit` most recently seen ones, every one of them has been returned
\* in an evicted list, and each call returns exactly what it removed.  An
\* evicted address that is named again re-enters the slot, so the union of
\* the evicted lists may contain addresses that are in the slot.
C1_SlotHoldsMostRecent ==
    (ret.op = "add_ip" /\ ~hist.lapsed) =>
        /\ Cardinality(SlotOf) = Min(DistinctSeen, LimitOf(hist.key))
        /\ \A a \in SlotOf : zset[hist.key][a] = hist.lastSeen[a]
        /\ hist.observed \ SlotOf = RankedOut
        /\ hist.observed \ SlotOf \subseteq hist.evicted
        /\ hist.evicted \subseteq hist.observed
        /\ Range(ret.evicted) = (ret.before \cup {ret.ip}) \ SlotOf
        /\ (~hist.tied => hist.observed \ SlotOf = StrictlyOlder)

\* an evicted address was named again and evicted another one
C1_Witness ==
    /\ ret.op = "add_ip" /\ ~hist.lapsed /\ ~hist.tied
    /\ ret.evicted # <<>>
    /\ ret.ip \in hist.evicted
    /\ DistinctSeen > LimitOf(hist.key)

(***************************************************************************)
(* SpecMark: the recent-ban marker of the address marks.ip, one call at a  *)
(* time, while the clock of the Redis server advances.                     *)
(***************************************************************************)
MarkBannedCall(ip, seconds, storeOk) ==
    /\ ip = marks.ip
    /\ banned' = mark_banned(banned, ip, seconds, rnow, storeOk)
    /\ marks' = [marks EXCEPT !.at = rnow, !.ttl = seconds, !.live = TRUE,
                              !.stored = (storeOk /\ seconds > 0),
                              !.hit = FALSE]
    /\ ret' = [op |-> "mark_banned", ip |-> ip]
    /\ UNCHANGED <<zset, clock, rnow, hist, fwVars, watchVars, envVars>>

IsBannedRecentlyCall(ip, storeOk) ==
    /\ ip = marks.ip
    /\ ret' = [op |-> "is_banned_recently", ip |-> ip, at |-> rnow,
               ok |-> storeOk,
               res |-> is_banned_recently(banned, ip, rnow, storeOk)]
    /\ marks' = [marks EXCEPT !.hit = @ \/ (rnow < marks.at + marks.ttl
                                   /\ is_banned_recently(banned, ip, rnow, storeOk))]
    /\ UNCHANGED <<zset, clock, banned, rnow, hist, fwVars, watchVars, envVars>>

\* unmark_banned: delete; an error propagates and leaves the key
UnmarkBannedCall(ip, storeOk) ==
    /\ ip = marks.ip
    /\ banned' = IF storeOk THEN Delete(banned, ip) ELSE banned
    /\ marks' = [marks EXCEPT !.live = FALSE]
    /\ ret' = [op |-> "unmark_banned", ip |-> ip]
    /\ UNCHANGED <<zset, clock, rnow, hist, fwVars, watchVars, envVars>>

Tick ==
    /\ rnow + ClockStep <= MaxTime
    /\ rnow' = rnow + ClockStep
    /\ UNCHANGED <<zset, clock, banned, hist, marks, ret, fwVars, watchVars, envVars>>

NextMark ==
    \/ \E ip \in Addrs, seconds \in Ttls \cup {0}, ok \in BOOLEAN :
          MarkBannedCall(ip, seconds, ok)
    \/ \E ip \in Addrs, ok \in BOOLEAN : IsBannedRecentlyCall(ip, ok)
    \/ \E ip \in Addrs, ok \in BOOLEAN : UnmarkBannedCall(ip, ok)
    \/ Tick

InitMark == \E ip \in Addrs : Init0(K1, ip)

SpecMark == InitMark /\ [][NextMark]_vars

schedule_ban_result(p, ip, seconds) ==
    ip_address_ok(ip) /\ ScheduleAccepts(p, ip, seconds)
schedule_ban_pending(p, ip, seconds) ==
    IF ip_address_ok(ip) THEN ScheduleInto(p, ip, seconds) ELSE p
schedule_ban_ensured(ens, n, ip, outcome) ==
    IF ip_address_ok(ip) THEN ensure_rule(ens, n, FALSE, outcome) ELSE ens
\* _ensure_worker
schedule_ban_worker(pc, ip) ==
    IF ip_address_ok(ip) /\ pc = "none" THEN "wait" ELSE pc

\* what a call of the layer returned, and what it met and left in the slot:
\* was / now, the TTL of the address in the slot before and after (0 when
\* absent); grew, the entries added; kept, the other entries are untouched;
\* after_refusal, the step before was a call refused at the cap
FwReturn(op, n, ip, seconds, ok, contacted, after) ==
    [op |-> op, node |-> n, ip |-> ip, seconds |-> seconds, ok |-> ok,
     contacted |-> contacted,
     full |-> (Len(pending[n]) = MAX_PENDING),
     was |-> IF ip \in PendingIps(pending[n])
             THEN PendingGet(pending[n], ip).ttl ELSE 0,
     now |-> IF ip \in PendingIps(after) THEN PendingGet(after, ip).ttl ELSE 0,
     grew |-> Len(after) - Len(pending[n]),
     kept |-> \A i \in 1..Len(pending[n]) :
                  pending[n][i].ip # ip =>
                      i <= Len(after) /\ after[i] = pending[n][i],
     after_refusal |-> (ret.op = "schedule_ban" /\ ret.node = n /\ ret.full
                        /\ ~ret.ok /\ ret.was = 0 /\ ret.ip # ip
                        /\ (IsIPv4(ret.ip) \/ IsIPv6(ret.ip)))]

ScheduleBanCore(n, ip, seconds, outcome) ==
    /\ pending' = [pending EXCEPT ![n] = schedule_ban_pending(@, ip, seconds)]
    /\ ensured' = schedule_ban_ensured(ensured, n, ip, outcome)
    /\ wpc' = [wpc EXCEPT ![n] = schedule_ban_worker(@, ip)]
    /\ ret' = FwReturn("schedule_ban", n, ip, seconds,
                       schedule_ban_result(pending[n], ip, seconds),
                       ip_address_ok(ip) /\ EnsureRuns(ensured, n, FALSE),
                       schedule_ban_pending(pending[n], ip, seconds))
    /\ UNCHANGED <<inflight, kset, storeVars, histVars, watchVars>>

ScheduleBanCall(n, ip, seconds, outcome) ==
    ScheduleBanCore(n, ip, seconds, outcome) /\ UNCHANGED envVars

\* ban_ip: what the remote command can do.  "added": the element went in
\* and the test found it; "untested": it went in and the test, which runs
\* ipset without $SUDO, failed; "add_failed": the add failed and so did the
\* test; "exit_early": no backend or no ipset, the script leaves with
\* exit 1 before the test; "no_run": ssh did not reach the node
BanIpOutcomes == {"added", "untested", "add_failed", "exit_early", "no_run"}
\* the markers in the output of the command
BanIpOutput(outcome) ==
    IF outcome \in {"untested", "add_failed"} THEN {"__TEST_FAIL__"} ELSE {}

\* ban_ip: add with TTL; ok = b'__TEST_FAIL__' not in out_bytes
BanIpCall(n, ip, seconds, outcome) ==
    /\ kset' = IF ip_address_ok(ip) /\ outcome \in {"added", "untested"}
               THEN [kset EXCEPT ![n] = @ \cup {ip}] ELSE kset
    /\ ret' = FwReturn("ban_ip", n, ip, seconds,
                       ip_address_ok(ip)
                           /\ "__TEST_FAIL__" \notin BanIpOutput(outcome),
                       ip_address_ok(ip), pending[n])
    /\ UNCHANGED <<pending, inflight, wpc, ensured, storeVars, histVars, watchVars, envVars>>

\* is_banned: the exit code of the membership test
IsBannedCall(n, ip, reached) ==
    /\ ret' = FwReturn("is_banned", n, ip, 0,
                       ip_address_ok(ip) /\ reached /\ ip \in kset[n],
                       ip_address_ok(ip), pending[n])
    /\ UNCHANGED <<pending, inflight, wpc, ensured, kset, storeVars, histVars, watchVars, envVars>>

\* unban_ip: delete the element; False only when the command cannot be spawned
UnbanIpCall(n, ip, spawned) ==
    /\ kset' = IF ip_address_ok(ip) /\ spawned
               THEN [kset EXCEPT ![n] = @ \ {ip}] ELSE kset
    /\ ret' = FwReturn("unban_ip", n, ip, 0, ip_address_ok(ip) /\ spawned,
                       ip_address_ok(ip) /\ spawned, pending[n])
    /\ UNCHANGED <<pending, inflight, wpc, ensured, storeVars, histVars, watchVars, envVars>>

\* _worker_loop: drain a batch under st.lock
Drain(n) ==
    /\ wpc[n] = "wait"
    /\ pending[n] # <<>>
    /\ inflight' = [inflight EXCEPT ![n] = DrainItems(pending[n])]
    /\ pending' = [pending EXCEPT ![n] = DrainRest(@)]
    /\ wpc' = [wpc EXCEPT ![n] = "apply"]
    /\ ret' = NoRet
    /\ UNCHANGED <<ensured, kset, storeVars, histVars, watchVars, envVars>>

BatchIps(n) == {inflight[n][i].ip : i \in 1..Len(inflight[n])}
BatchParses(n) == \A ip \in BatchIps(n) : ip_address_ok(ip)

\* _apply_batch: the remote command exits 0; the script ends with `true`, so
\* it does so whether or not the set tool took the payload
ApplyOk(n, landed) ==
    /\ wpc[n] = "apply"
    /\ BatchParses(n)
    /\ kset' = IF landed THEN [kset EXCEPT ![n] = KernelAdd(@, inflight[n])]
               ELSE kset
    /\ inflight' = [inflight EXCEPT ![n] = <<>>]
    /\ wpc' = [wpc EXCEPT ![n] = "wait"]
    /\ ret' = NoRet
    /\ UNCHANGED <<pending, ensured, storeVars, histVars, watchVars, envVars>>

\* _apply_batch: the remote command exits non-zero; the items are put back
ApplyFail(n) ==
    /\ wpc[n] = "apply"
    /\ BatchParses(n)
    /\ pending' = [pending EXCEPT ![n] = Reinsert(@, inflight[n])]
    /\ inflight' = [inflight EXCEPT ![n] = <<>>]
    /\ wpc' = [wpc EXCEPT ![n] = "wait"]
    /\ ret' = NoRet
    /\ UNCHANGED <<ensured, kset, storeVars, histVars, watchVars, envVars>>

\* _apply_batch raises (an item does not parse, or the command cannot be
\* spawned); _worker_loop logs the exception and goes on
ApplyRaise(n) ==
    /\ wpc[n] = "apply"
    /\ inflight' = [inflight EXCEPT ![n] = <<>>]
    /\ wpc' = [wpc EXCEPT ![n] = "wait"]
    /\ ret' = NoRet
    /\ UNCHANGED <<pending, ensured, kset, storeVars, histVars, watchVars, envVars>>

Worker(n) ==
    \/ Drain(n)
    \/ \E landed \in BOOLEAN : ApplyOk(n, landed)
    \/ ApplyFail(n)
    \/ ApplyRaise(n)

\* SpecFw drives one node: the state of the layer is per node
FwNodes == {"n1"}
FwAddrs == Addrs

NextFw ==
    \/ \E n \in FwNodes, ip \in FwAddrs, seconds \in Ttls :
          \E o \in EnsureOutcomes(ensured, n, FALSE) :
              ScheduleBanCall(n, ip, seconds, o)
    \/ \E n \in FwNodes : Worker(n)

InitFw == Init0(K1, A1)

SpecFw == InitFw /\ [][NextFw]_vars

(***************************************************************************)
(* SpecShot: every entry of the layer that takes an address, called with   *)
(* addresses that parse and addresses that do not, with the ban duration   *)
(* of the configuration as TTL.                                            *)
(***************************************************************************)
NextShot ==
    \/ \E n \in FwNodes, ip \in FwAddrs :
          \E o \in EnsureOutcomes(ensured, n, FALSE) :
              ScheduleBanCall(n, ip, BanSeconds, o)
    \/ \E n \in FwNodes, ip \in FwAddrs, outcome \in BanIpOutcomes :
          BanIpCall(n, ip, BanSeconds, outcome)
    \/ \E n \in FwNodes, ip \in FwAddrs, reached \in BOOLEAN :
          IsBannedCall(n, ip, reached)
    \/ \E n \in FwNodes, ip \in FwAddrs, spawned \in BOOLEAN :
          UnbanIpCall(n, ip, spawned)
    \/ \E n \in FwNodes : Worker(n)

SpecShot == InitFw /\ [][NextShot]_vars

(***************************************************************************)
(* C3 .. C6                                                                *)
(***************************************************************************)
ValidAddress(ip) == IsIPv4(ip) \/ IsIPv6(ip)
ItemIps(q) == {q[i].ip : i \in 1..Len(q)}
FwOps == {"schedule_ban", "ban_ip", "is_banned", "unban_ip"}

\* C3: no address that fails IPv4/IPv6 validation is in a pending slot, in
\* a submitted batch or in a timed set, and schedule-ban, single-shot ban,
\* membership test and unban return false for such an address without
\* enqueuing it and without contacting the node.
C3_OnlyValidAddressesReachFirewall ==
    /\ \A n \in Nodes :
          /\ \A ip \in ItemIps(pending[n]) : ValidAddress(ip)
          /\ \A ip \in ItemIps(inflight[n]) : ValidAddress(ip)
          /\ \A ip \in kset[n] : ValidAddress(ip)
    /\ (ret.op \in FwOps /\ ~ValidAddress(ret.ip)) =>
          /\ ret.ok = FALSE
          /\ ret.contacted = FALSE
          /\ ret.now = 0 /\ ret.grew = 0 /\ ret.kept

\* an address that does not parse was refused by unban while the node has a
\* pending entry, a batch in flight and an element in its timed set
C3_Witness ==
    /\ ret.op = "unban_ip" /\ ret.ip = BadAddr /\ ~ret.ok
    /\ pending[ret.node] # <<>>
    /\ inflight[ret.node] # <<>>
    /\ kset[ret.node] # {}

\* C4: the number of entries of a node's pending slot never exceeds the cap.
C4_PendingWithinCap ==
    \A n \in Nodes : Len(pending[n]) <= MAX_PENDING

\* C5: at a slot holding exactly the cap, schedule-ban of an address that is
\* not pending returns false and leaves the slot unchanged; schedule-ban of
\* an address that is pending returns true and leaves its TTL at the maximum
\* of the old and the new one.
C5_AtCapOnlyNewAddressesAreRefused ==
    (ret.op = "schedule_ban" /\ ret.full) =>
        /\ ret.kept
        /\ ret.grew = 0
        /\ (ret.was = 0 => ~ret.ok /\ ret.now = 0)
        /\ (ret.was # 0 => ret.ok /\ ret.now = Max(ret.was, ret.seconds))

\* at the cap a new address was refused, then the TTL of a pending one raised
C5_Witness ==
    /\ ret.op = "schedule_ban" /\ ret.full /\ ret.after_refusal
    /\ ret.ok
    /\ ret.was # 0 /\ ret.seconds > ret.was /\ ret.now = ret.seconds

LineKeys == {K1}
LineAddrs == {A1, A2}

Bump(c) == Min(c + 1, 2)

\* add_ip: what the except clauses return as evicted list
add_ip_on_error_keeps(old) == old
add_ip_on_error(old) == <<>>

\* for old_ip in evicted: if old_ip == ip: continue (the variant without
\* the test hands every evicted address on)
SkipOwnOff(ev, ip) == ev
RECURSIVE SkipOwn(_, _)
SkipOwn(ev, ip) ==
    IF ev = <<>> THEN <<>>
    ELSE IF Head(ev) = ip THEN SkipOwn(Tail(ev), ip)
    ELSE ev

\* run(): on to the next evicted address, or back to the log stream
NextEvicted(r, ev) ==
    LET e == SkipOwn(ev, r.ip)
    IN  IF e = <<>>
        THEN [r EXCEPT !.pc = "idle", !.key = K1, !.ip = A1, !.ev = <<>>,
                       !.acts = 0,
                       !.old = <<>>, !.k = 0, !.idx = 0, !.cur = A1,
                       !.ts = 0, !.called = {},
                       !.success_nodes = <<>>, !.failed_nodes = <<>>]
        ELSE [r EXCEPT !.pc = "check", !.cur = Head(e), !.ev = Tail(e),
                       !.old = <<>>, !.k = 0, !.idx = 0, !.called = {},
                       !.success_nodes = <<>>, !.failed_nodes = <<>>]

\* add_ip returned (evicted, flag) to run()
Returned(r, evicted) == NextEvicted(r, evicted)

\* add_ip ended in one of its except clauses
Failed(r) ==
    Returned([r EXCEPT !.failed = TRUE], add_ip_on_error(r.old))

fwUnchanged == UNCHANGED <<pending, inflight, wpc, ensured, kset>>

\* a parsed line (email, ip, inbound) with a configured limit arrives;
\* add_ip reads time.time() and builds the pipeline.  The readings of the
\* lines of Spec are all different (SpecStore has the equal ones)
LineCore(n, key, ip) ==
    /\ w[n].pc = "idle"
    /\ clock < MaxClock
    /\ clock' = clock + 1
    /\ w' = [w EXCEPT ![n] = [@ EXCEPT !.pc = "pipe", !.key = key, !.ip = ip,
                                       !.ts = clock + 1, !.failed = FALSE,
                                       !.acts = 0]]
    /\ UNCHANGED <<zset, banned, rnow, histVars, ret>>
    /\ fwUnchanged

Line(n, key, ip) == LineCore(n, key, ip) /\ UNCHANGED envVars

\* pipe.execute(): zadd, zcard, expire in one transaction.  outcome "ok",
\* "lost" (the error came before the server ran it), "late" (after)
Pipe(n, outcome) ==
    LET r == w[n]
        z1 == ZAdd(zset[r.key], r.ip, r.ts)
        count == ZCard(z1)
    IN  /\ r.pc = "pipe"
        /\ zset' = IF outcome = "lost" THEN zset
                   ELSE [zset EXCEPT ![r.key] = z1]
        /\ w' = [w EXCEPT ![n] =
                    IF outcome # "ok" THEN Failed(r)
                    ELSE IF count > LimitOf(r.key)
                    THEN [r EXCEPT !.pc = "zrange",
                                   !.k = TrimCount(count, LimitOf(r.key))]
                    ELSE [r EXCEPT !.pc = "zscore"]]
        /\ UNCHANGED <<clock, banned, rnow, histVars, ret, envVars>>
        /\ fwUnchanged

\* old = zrange(key, 0, k-1)
ZRangeStep(n, ok) ==
    LET r == w[n]
        old == ZRange(zset[r.key], r.k - 1)
    IN  /\ r.pc = "zrange"
        /\ w' = [w EXCEPT ![n] =
                    IF ~ok THEN Failed(r)
                    ELSE IF old = <<>> THEN [r EXCEPT !.pc = "zscore"]
                    ELSE [r EXCEPT !.pc = "zrem", !.old = old]]
        /\ UNCHANGED <<storeVars, histVars, ret, envVars>>
        /\ fwUnchanged

\* zrem(key, *old); evicted = old
ZRemStep(n, outcome) ==
    LET r == w[n]
    IN  /\ r.pc = "zrem"
        /\ zset' = IF outcome = "lost" THEN zset
                   ELSE [zset EXCEPT ![r.key] = ZRem(@, Range(r.old))]
        /\ w' = [w EXCEPT ![n] =
                    IF outcome # "ok" THEN Failed(r) ELSE Returned(r, r.old)]
        /\ UNCHANGED <<clock, banned, rnow, histVars, ret, envVars>>
        /\ fwUnchanged

\* zscore(key, ip), awaited when nothing was evicted
ZScoreStep(n, ok) ==
    LET r == w[n]
    IN  /\ r.pc = "zscore"
        /\ w' = [w EXCEPT ![n] = IF ~ok THEN Failed(r) ELSE Returned(r, <<>>)]
        /\ UNCHANGED <<storeVars, histVars, ret, envVars>>
        /\ fwUnchanged

\* if await self.store.is_banned_recently(old_ip): continue
Check(n, ok) ==
    LET r == w[n]
    IN  /\ r.pc = "check"
        /\ w' = [w EXCEPT ![n] =
                    IF is_banned_recently(banned, r.cur, rnow, ok)
                    THEN NextEvicted(r, r.ev)
                    ELSE [r EXCEPT !.pc = "fan", !.idx = 1]]
        /\ UNCHANGED <<storeVars, histVars, ret, envVars>>
        /\ fwUnchanged

\* one turn of `for node in self.all_nodes`: ensure_rule(node), then
\* schedule_ban(node, old_ip, ban_minutes*60); an exception of either puts
\* the node among the failed ones.  o1 is the outcome of the watcher's
\* ensure_rule, o2 of the one inside schedule_ban
FanOut(n, o1, o2) ==
    LET r == w[n]
        node == all_nodes[r.idx]
        raised == EnsureRaises(ensured, node, FALSE, o1)
        ens1 == ensure_rule(ensured, node, FALSE, o1)
        ok == schedule_ban_result(pending[node], r.cur, BanSeconds)
        r1 == IF raised
              THEN [r EXCEPT !.failed_nodes = Append(@, node)]
              ELSE [r EXCEPT !.called = @ \cup {node},
                             !.acts = Bump(@),
                             !.success_nodes = IF ok THEN Append(@, node) ELSE @,
                             !.failed_nodes = IF ok THEN @ ELSE Append(@, node)]
    IN  /\ r.pc = "fan"
        /\ o1 \in EnsureOutcomes(ensured, node, FALSE)
        /\ o2 \in IF raised THEN {"cached"}
                  ELSE EnsureOutcomes(ens1, node, FALSE)
        /\ ensured' = IF raised THEN ens1
                      ELSE schedule_ban_ensured(ens1, node, r.cur, o2)
        /\ pending' = IF raised THEN pending
                      ELSE [pending EXCEPT ![node] =
                               schedule_ban_pending(@, r.cur, BanSeconds)]
        /\ wpc' = IF raised THEN wpc
                  ELSE [wpc EXCEPT ![node] = schedule_ban_worker(@, r.cur)]
        /\ w' = [w EXCEPT ![n] =
                    IF r.idx = Len(all_nodes)
                    THEN [r1 EXCEPT !.pc = "mark"]
                    ELSE [r1 EXCEPT !.idx = r.idx + 1]]
        /\ UNCHANGED <<inflight, kset, storeVars, histVars, ret, envVars>>

\* await self.store.mark_banned(old_ip, self.ban_minutes*60)
Mark(n, ok) ==
    LET r == w[n]
    IN  /\ r.pc = "mark"
        /\ banned' = mark_banned(banned, r.cur, BanSeconds, rnow, ok)
        /\ w' = [w EXCEPT ![n] = [r EXCEPT !.pc = "notify", !.acts = Bump(@)]]
        /\ UNCHANGED <<zset, clock, rnow, histVars, ret, envVars>>
        /\ fwUnchanged

\* _add_ban_to_batch: append the event; flush when _ban_batch_max events
\* wait or when the window has elapsed since the last message (it has when
\* nothing was sent yet: _ban_batch_last_sent = 0.0)
Notify(n, elapsed) ==
    LET r == w[n]
        batch == Append(r.ban_batch, r.cur)
        flush == Len(batch) >= BanBatchMax \/ elapsed
        r1 == IF flush
              THEN [r EXCEPT !.ban_batch = <<>>, !.sent_before = TRUE,
                             !.acts = Bump(@)]
              ELSE [r EXCEPT !.ban_batch = batch, !.acts = Bump(@)]
    IN  /\ r.pc = "notify"
        /\ elapsed \in IF r.sent_before THEN BOOLEAN ELSE {TRUE}
        /\ w' = [w EXCEPT ![n] = NextEvicted(r1, r1.ev)]
        /\ UNCHANGED <<storeVars, histVars, ret, envVars>>
        /\ fwUnchanged

StoreOutcomes == {"ok", "lost", "late"}

\* the steps of the watcher of n after the line was read
Handle(n) ==
    \/ \E o \in StoreOutcomes : Pipe(n, o)
    \/ \E ok \in BOOLEAN : ZRangeStep(n, ok)
    \/ \E o \in StoreOutcomes : ZRemStep(n, o)
    \/ \E ok \in BOOLEAN : ZScoreStep(n, ok)
    \/ \E ok \in BOOLEAN : Check(n, ok)
    \/ \E o1, o2 \in {"ok", "failed", "raise", "cached"} : FanOut(n, o1, o2)
    \/ \E ok \in BOOLEAN : Mark(n, ok)
    \/ \E elapsed \in BOOLEAN : Notify(n, elapsed)

Watcher(n) ==
    \/ \E key \in LineKeys, ip \in LineAddrs : Line(n, key, ip)
    \/ Handle(n)

Next ==
    \/ \E n \in Nodes : Watcher(n)
    \/ \E n \in Nodes : Worker(n)

Init == Init0(K1, A1)

Spec == Init /\ [][Next]_vars

(***************************************************************************)
(* C2, C7, C8, C9: the watchers, checked under Spec.                       *)
(***************************************************************************)
\* the positions of run() at which the watcher handles the evicted address cur
Handling == {"check", "fan", "mark", "notify"}

\* C2 as stated: concurrent add_ip calls on one slot behave as if serialized,
\* so no call returns as evicted an address that is no longer in the slot
\* because another call, which returned it too and is still handling it,
\* already trimmed it.
C2_AsStated ==
    [][\A n, m \in Nodes :
          ~ /\ n # m
            /\ w[n].pc = "zrem" /\ w'[n].pc \in Handling /\ ~w'[n].failed
            /\ w[m].pc \in Handling /\ w[m].key = w[n].key
            /\ w[m].cur \in Range(w[n].old)
            /\ zset[w[n].key][w[m].cur] = 0]_vars

\* C7 as stated: when the watcher has gone round the fleet for an evicted
\* address that the recent-ban check let through, it has called
\* schedule_ban(node, address, ban_minutes*60) on every node.
C7_AsStated ==
    \A n \in Nodes : w[n].pc = "mark" => w[n].called = Nodes

\* C8 as stated: within one ban window the fan-out and mark_banned for an
\* address are performed once, so two watchers are never both past the
\* recent-ban check and before their mark_banned for the same address.
C8_AsStated ==
    \A n, m \in Nodes :
        (n # m /\ w[n].pc \in {"fan", "mark"} /\ w[m].pc \in {"fan", "mark"})
            => w[n].cur # w[m].cur

\* C9: when a store step of add_ip fails or times out, add_ip returns the
\* empty list and the watcher goes back to the log stream: for that line
\* it calls neither schedule_ban nor mark_banned nor the batcher.
C9_FailedAddIpBansNothing ==
    \A n \in Nodes :
        w[n].failed => /\ w[n].pc = "idle"
                       /\ w[n].ev = <<>>
                       /\ w[n].acts = 0

\* C9 witness: the zrem of a line failed before the server ran it: the slot
\* holds more than limit addresses, and still nothing was banned
C9_Witness ==
    \E n \in Nodes :
        /\ w[n].failed /\ w[n].pc = "idle"
        /\ ZCard(zset[K1]) > LimitOf(K1)
        /\ \A a \in Addrs : banned[a] = 0
        /\ \A a \in Nodes : pending[a] = <<>>

(***************************************************************************)
(* C11: the marker and the outcome of the fan-out, checked under Spec.     *)
(***************************************************************************)
\* C11 as stated: mark_banned is called for an evicted address only when
\* schedule_ban accepted it on at least one node: a watcher that has just
\* called mark_banned has a node in success_nodes.
C11_AsStated ==
    \A n \in Nodes : w[n].pc = "notify" => w[n].success_nodes # <<>>

ensureRest == <<pending, inflight, wpc, kset, storeVars, histVars, watchVars,
               fd, fdh, hk, stats, boot, tasks, rop, pl, nb, att, sl,
                callers, race, unb>>

(***************************************************************************)
(* SpecEnsure: ensure_rule called again and again against the node n1,     *)
(* by the watcher and schedule_ban (force = False), by the startup check   *)
(* and the operator's "fix firewall" (force = True), and by                *)
(* force_ensure_all_nodes, which drops the node from the cache first.      *)
(***************************************************************************)
\* ensure_rule(spec, force); spawned = FALSE when create_subprocess_exec
\* raises.  A cached call returns before any script.
EnsureCall(n, force, spawned) ==
    LET runs == EnsureRuns(ensured, n, force) /\ spawned
        h1 == EnsureScripts(host)
    IN  /\ host.calls < MaxEnsure
        /\ host' = IF runs
                   THEN [h1 EXCEPT !.calls = @ + 1, !.ran = TRUE,
                                   !.first = IF host.ran THEN @
                                             ELSE [sets |-> h1.sets,
                                                   chains |-> h1.chains]]
                   ELSE [host EXCEPT !.calls = @ + 1]
        /\ ensured' = IF runs /\ Verified(MainScript(host))
                      THEN ensured \cup {n} ELSE ensured
        /\ ret' = [op |-> "ensure_rule", node |-> n, ran |-> runs]
        /\ UNCHANGED ensureRest

\* force_ensure_all_nodes, for one node: _RULE_ENSURED.discard(key), then
\* ensure_rule(node, force=True)
ForceEnsureCall(n, spawned) ==
    LET h1 == EnsureScripts(host)
    IN  /\ host.calls < MaxEnsure
        /\ host' = IF spawned
                   THEN [h1 EXCEPT !.calls = @ + 1, !.ran = TRUE,
                                   !.first = IF host.ran THEN @
                                             ELSE [sets |-> h1.sets,
                                                   chains |-> h1.chains]]
                   ELSE [host EXCEPT !.calls = @ + 1]
        /\ ensured' = IF spawned /\ Verified(MainScript(host))
                      THEN ensured \cup {n} ELSE ensured \ {n}
        /\ ret' = [op |-> "force_ensure", node |-> n, ran |-> spawned]
        /\ UNCHANGED ensureRest

NextEnsure ==
    \/ \E force, spawned \in BOOLEAN : EnsureCall("n1", force, spawned)
    \/ \E spawned \in BOOLEAN : ForceEnsureCall("n1", spawned)

\* the nodes ensure_rule may meet: with or without iptables, ssh_user root or
\* not, docker (the chain DOCKER-USER) there or not; sets and rules absent
InitEnsure ==
    /\ InitCore(K1, A1)
    /\ \E b \in {"IPTABLES", "NONE"}, r, d \in BOOLEAN :
          host = [NoHost EXCEPT !.backend = b, !.root = r, !.docker = d]

SpecEnsure == InitEnsure /\ [][NextEnsure]_vars

\* a chain holds no rule twice
NoRuleTwice(q) == \A i, j \in 1..Len(q) : q[i] = q[j] => i = j

\* C12 as stated: however many ensure calls follow the first one that ran
\* the scripts, the node has the sets and, in each chain, the rules that
\* this first call left, and no chain holds a rule twice.
C12_AsStated ==
    host.ran =>
        /\ host.sets = host.first.sets
        /\ host.chains = host.first.chains
        /\ \A f \in Families, c \in Chains : NoRuleTwice(host.chains[f][c])

(***************************************************************************)
(* SpecOrder: schedule_ban and the worker of n1 while no batch exits       *)
(* non-zero.  Nothing is put back then, so st.pending (a dict, kept in     *)
(* insertion order) holds its addresses in the order schedule_ban accepted *)
(* them.                                                                   *)
(***************************************************************************)
NextOrder ==
    \/ \E n \in FwNodes, ip \in FwAddrs, seconds \in Ttls :
          \E o \in EnsureOutcomes(ensured, n, FALSE) :
              ScheduleBanCall(n, ip, seconds, o)
    \/ \E n \in FwNodes : Drain(n)
    \/ \E n \in FwNodes, landed \in BOOLEAN : ApplyOk(n, landed)
    \/ \E n \in FwNodes : ApplyRaise(n)

SpecOrder == InitFw /\ [][NextOrder]_vars

\* the worker of n takes a batch out of st.pending in this step
TakesBatch(n) == inflight[n] = <<>> /\ inflight'[n] # <<>>

\* C13 as stated: an address accepted before another one is submitted in the
\* same batch or in an earlier one: when the worker takes a batch, no
\* address it leaves in the slot was accepted before an address it takes.
C13_AsStated ==
    [][\A n \in FwNodes :
          TakesBatch(n) =>
              \A a \in PendingIps(pending'[n]), b \in ItemIps(inflight'[n]) :
                  PendingIdx(pending[n], a) > PendingIdx(pending[n], b)]_vars

(***************************************************************************)
(* C14: a batch that exits non-zero, checked under SpecFw.                 *)
(***************************************************************************)
\* the TTL address ip is pending with in slot p, 0 when it is not pending
TtlIn(p, ip) == IF ip \in PendingIps(p) THEN PendingGet(p, ip).ttl ELSE 0

\* C14: when the batch command of node n exits non-zero, every item of the
\* batch is pending on n afterwards, with a TTL that is neither below the
\* TTL it had in the batch nor below the TTL it was re-scheduled with
\* meanwhile; nothing else in the slot changes, and the worker is back at
\* its wait with a slot that is not empty.
C14_FailedBatchIsPutBack ==
    [][\A n \in FwNodes :
          ApplyFail(n) =>
              /\ \A i \in 1..Len(inflight[n]) :
                    /\ inflight[n][i].ip \in PendingIps(pending'[n])
                    /\ TtlIn(pending'[n], inflight[n][i].ip) >= inflight[n][i].ttl
              /\ \A ip \in PendingIps(pending[n]) :
                    TtlIn(pending'[n], ip) >= TtlIn(pending[n], ip)
              /\ PendingIps(pending'[n]) =
                    PendingIps(pending[n]) \cup ItemIps(inflight[n])
              /\ wpc'[n] = "wait" /\ pending'[n] # <<>>]_vars

\* C14 witness: only the items of a failed batch, put back, take a slot
\* beyond MAX_PENDING; here they came back next to entries of another TTL
C14_Witness ==
    /\ Len(pending["n1"]) > MAX_PENDING
    /\ \E i, j \in 1..Len(pending["n1"]) :
          pending["n1"][i].ttl < pending["n1"][j].ttl

(***************************************************************************)
(* SpecFd: one watcher reading control lines of its stream while the wall  *)
(* clock advances.  fdh.seen holds the instants of the last THRESHOLD      *)
(* fd_unreadable sentinels since the last attach or reboot, fdh.issued the *)
(* instants of the reboot commands.                                        *)
(***************************************************************************)
otherVars == <<storeVars, histVars, ret, fwVars, watchVars, host, hk, stats, boot,
               tasks, rop, pl, nb, att, sl, callers, race, unb>>

\* a minute of wall clock passes
MinutePasses ==
    /\ fd.now < MaxNow
    /\ fd' = [fd EXCEPT !.now = @ + 1]
    /\ UNCHANGED <<fdh, otherVars>>

\* a '[guardian-stream] ... follow pid=' line, the first of the process
FollowLine ==
    /\ ~fd._up_notified
    /\ fd' = Attached(fd)
    /\ fdh' = [fdh EXCEPT !.seen = <<>>]
    /\ UNCHANGED otherVars

\* a '[guardian-stream] ... fd_unreadable' line
FdUnreadableLine ==
    LET g == Counted(fd)
    IN  /\ fd._fd_unreadable_count < MaxCount
        /\ fd' = MaybeReboot(g)
        /\ fdh' = IF FdDecision(g) = "reboot"
                  THEN [seen |-> <<>>, issued |-> Append(fdh.issued, fd.now)]
                  ELSE [fdh EXCEPT
                          !.seen = LastOf(Append(@, fd.now), THRESHOLD)]
        /\ UNCHANGED otherVars

NextFd == MinutePasses \/ FollowLine \/ FdUnreadableLine

SpecFd == Init0(K1, A1) /\ [][NextFd]_vars

C16_AsStated ==
    (/\ Len(fdh.seen) = THRESHOLD
     /\ fdh.seen[THRESHOLD] - fdh.seen[1] <= FdWindow)
        => fd._fd_reboot_scheduled_at # 0

(***************************************************************************)
(* SpecHostKey: the tasks of all descriptors run on one event loop; a task *)
(* yields at every await, so the test of _hostkey_cleared and the add to   *)
(* it are separate steps with _remove_known_host between them.             *)
(***************************************************************************)
hkRest == <<storeVars, histVars, ret, fwVars, watchVars, host, fd, fdh, stats, boot,
            tasks, rop, pl, nb, att, sl, callers, race, unb>>

\* ssh output with IDENTIFICATION HAS CHANGED is read by a task of d, in
\* _diagnose_connectivity (probe) or in stream_logs: up to the await of
\* _remove_known_host, or to the end when the host is in _hostkey_cleared
Mismatch(d, probe) ==
    /\ hk.pc[d] = "idle"
    /\ hk.met[d] < MaxMismatch
    /\ hk' = IF HostOf(d) \notin hk.cleared
             THEN [hk EXCEPT !.met[d] = @ + 1,
                             !.detected[HostOf(d)] = @ + 1,
                             !.pc[d] = "removing"]
             ELSE [hk EXCEPT !.met[d] = @ + 1,
                             !.plain[HostOf(d)] =
                                 IF probe THEN @ + 1 ELSE @]
    /\ UNCHANGED hkRest

\* _remove_known_host returns to the task of d, which adds the host to
\* _hostkey_cleared and leaves the handler
RemoveReturns(d) ==
    /\ hk.pc[d] = "removing"
    /\ hk' = [hk EXCEPT !.removals[HostOf(d)] = @ + 1,
                        !.cleared = @ \cup {HostOf(d)},
                        !.pc[d] = "idle"]
    /\ UNCHANGED hkRest

NextHostKey ==
    \/ \E d \in Descriptors, probe \in BOOLEAN : Mismatch(d, probe)
    \/ \E d \in Descriptors : RemoveReturns(d)

SpecHostKey == Init0(K1, A1) /\ [][NextHostKey]_vars

\* C17: for every host, the known-host entry is removed at most once and
\* at most one rotation-detected event is logged.
C17_AsStated ==
    \A h \in Hosts : hk.removals[h] <= 1 /\ hk.detected[h] <= 1

(***************************************************************************)
(* C18: the order of eviction, checked under SpecStore.                    *)
(***************************************************************************)
\* a entered the slot before b did (ret.order: the members before the call
\* removed any) and was last written before b was
EnteredBefore(a, b) ==
    /\ Pos(ret.order, a) < Pos(ret.order, b)
    /\ Pos(hist.written, a) < Pos(hist.written, b)

\* a is due for eviction no later than b: an older timestamp, or the same
\* timestamp and b not inserted earlier
DueNoLater(a, b) ==
    \/ hist.lastSeen[a] < hist.lastSeen[b]
    \/ hist.lastSeen[a] = hist.lastSeen[b] /\ ~EnteredBefore(b, a)

\* C18: a call of add_ip returns the evicted addresses oldest first, every
\* evicted address is due no later than every address left in the slot,
\* and of two addresses with one timestamp the one inserted earlier goes
\* first.
C18_AsStated ==
    (ret.op = "add_ip" /\ ~hist.lapsed) =>
        /\ \A i, j \in 1..Len(ret.evicted) :
              i < j => DueNoLater(ret.evicted[i], ret.evicted[j])
        /\ \A a \in Range(ret.evicted), b \in SlotOf : DueNoLater(a, b)

(***************************************************************************)
(* SpecLine: the watcher of node n1 reads lines whose inbound label has a  *)
(* configured limit and lines whose label has none, and counts them.       *)
(***************************************************************************)
MaxLines == 2       \* lines counted between two resets of the counters
LogInbounds == {"VMESS_TCP", "API"}
LineNode == "n1"
NoLimit == 0        \* None

\* self.limits.get(inbound) (the defaulting variant gives an unknown label
\* the limit 1)
LimitsGetDefault(inbound) ==
    IF inbound \in DOMAIN limits THEN limits[inbound] ELSE 1
LimitsGet(inbound) ==
    IF inbound \in DOMAIN limits THEN limits[inbound] ELSE NoLimit

\* run: the counters after the line is counted; minute: more than 60 s have
\* passed since the counters were last logged
Counters(minute, parsed) ==
    LET c == IF minute THEN [_lines |-> 0, _parsed |-> 0]
             ELSE [stats EXCEPT !._lines = @ + 1]
    IN  IF parsed THEN [c EXCEPT !._parsed = @ + 1] ELSE c

lineRest == <<host, fd, fdh, hk, boot, tasks, rop, pl, nb, att, sl, callers,
              race, unb>>

\* an 'accepted ... email:' line that parse_line splits into (email, ip,
\* inbound), up to the call of add_ip
LogLine(n, inbound, email, ip, minute) ==
    /\ w[n].pc = "idle"
    /\ minute \/ stats._lines < MaxLines
    /\ IF LimitsGet(inbound) = NoLimit
       THEN /\ stats' = Counters(minute, FALSE)
            /\ UNCHANGED <<storeVars, histVars, ret, fwVars, watchVars>>
       ELSE /\ stats' = Counters(minute, TRUE)
            /\ LineCore(n, <<inbound, email>>, ip)
    /\ UNCHANGED lineRest

NextLine ==
    \/ \E inbound \in LogInbounds, ip \in LineAddrs, minute \in BOOLEAN :
          LogLine(LineNode, inbound, "u1", ip, minute)
    \/ Handle(LineNode)

SpecLine == Init /\ [][NextLine]_vars

\* C19: a line whose inbound label has no configured limit leaves the store
\* (slots and markers), every node's pending bans and timed sets, and the
\* watcher (its position, its pending notification batch) as they were.
C19_UnlimitedLineChangesNothing ==
    [][\A inbound \in LogInbounds \ DOMAIN limits, ip \in LineAddrs,
          minute \in BOOLEAN :
          LogLine(LineNode, inbound, "u1", ip, minute) =>
              UNCHANGED <<zset, clock, banned, rnow, pending, inflight,
                          wpc, ensured, kset, w>>]_vars

\* C19 witness: lines were counted that were not handed to add_ip, after a
\* line with a limit had filled the slot
C19_Witness ==
    /\ stats._lines > stats._parsed
    /\ zset[K1] # EmptyZ
    /\ w[LineNode].pc = "idle"

(***************************************************************************)
(* SpecBoot: amain from the loading of the configuration to the gather of  *)
(* the watchers.  boot.exit is "running" while the process runs, "0" when  *)
(* amain returns, "1" when an exception leaves asyncio.run.                *)
(***************************************************************************)
MaxNodes == 3       \* node descriptors in the configuration
bootRest == <<storeVars, histVars, ret, fwVars, watchVars,
              host, fd, fdh, hk, stats, tasks, rop, pl, nb, att, sl,
              callers, race, unb>>

\* load(config_path); ensure_defaults(cfg); Store(url) connects lazily
LoadConfig(valid, nodes, telegram) ==
    /\ boot.pc = "load"
    /\ boot' = IF valid
               THEN [boot EXCEPT !.pc = "ping", !.nodes = nodes,
                                 !.notifier = telegram]
               ELSE [boot EXCEPT !.pc = "exited", !.exit = "1"]
    /\ UNCHANGED bootRest

\* await store.ping() inside try/except Exception: logged either way
PingStore(ok) ==
    /\ boot.pc = "ping"
    /\ boot' = [boot EXCEPT !.pc = "nodes",
                            !.redis = IF ok THEN "ok" ELSE "failed"]
    /\ UNCHANGED bootRest

\* if not nodes: return
NoNodes ==
    /\ boot.pc = "nodes"
    /\ boot.nodes = 0
    /\ boot' = [boot EXCEPT !.pc = "exited", !.exit = "0"]
    /\ UNCHANGED bootRest

\* one turn of the start-up firewall loop; every exception is caught
CheckFirewall(result) ==
    /\ boot.pc = "nodes"
    /\ Len(boot.firewall_results) < boot.nodes
    /\ boot' = [boot EXCEPT !.firewall_results = Append(@, result)]
    /\ UNCHANGED bootRest

\* one NodeWatcher(...).run() per node, handed to asyncio.gather
StartWatchers ==
    /\ boot.pc = "nodes"
    /\ boot.nodes > 0
    /\ Len(boot.firewall_results) = boot.nodes
    /\ boot' = [boot EXCEPT !.pc = "gather", !.watchers = boot.nodes]
    /\ UNCHANGED bootRest

NextBoot ==
    \/ \E valid, telegram \in BOOLEAN, nodes \in 0..MaxNodes :
          LoadConfig(valid, nodes, telegram)
    \/ \E ok \in BOOLEAN : PingStore(ok)
    \/ NoNodes
    \/ \E result \in {"ok", "auto-fixed", "failed"} : CheckFirewall(result)
    \/ StartWatchers

SpecBoot == Init0(K1, A1) /\ [][NextBoot]_vars

\* C20: once the ping of the store has failed, no watcher is started and
\* the process does not go on to run its watchers.
C20_AsStated ==
    boot.redis = "failed" => boot.watchers = 0 /\ boot.pc # "gather"

(***************************************************************************)
(* SpecRun: the run() coroutines of the watchers under the gather of amain.*)
(* A task is at "ensure" (the call before the loop), "stream" (inside the  *)
(* try of the loop), "sleep" (the back-off), "raised" (an exception left   *)
(* run()) or "cancelled".                                                  *)
(***************************************************************************)
BackoffCap == 30
runRest == <<storeVars, histVars, ret, fwVars, watchVars,
             host, fd, fdh, hk, stats, boot, rop, pl, nb, att, sl, callers,
             race, unb>>

\* run: `if not self._ensured: await ensure_rule(self.spec)`, outside any
\* try.  outcome "ok", "unverified" (ensure_rule logs and returns), "raise"
\* (create_subprocess_exec raises: ssh or sshpass cannot be spawned)
RunEnsure(n, outcome) ==
    /\ tasks.proc = "running"
    /\ tasks.t[n].pc = "ensure"
    /\ tasks' = [tasks EXCEPT !.t[n].pc =
                    IF outcome = "raise" THEN "raised" ELSE "stream"]
    /\ UNCHANGED runRest

\* the stream ends, or anything inside the try raises an Exception
StreamStops(n, raised) ==
    /\ tasks.proc = "running"
    /\ tasks.t[n].pc = "stream"
    /\ tasks' = [tasks EXCEPT !.t[n].pc = "sleep"]
    /\ UNCHANGED runRest

\* asyncio.sleep(min(backoff, 30)) returns; backoff = min(backoff*2, 30)
BackoffOver(n) ==
    /\ tasks.proc = "running"
    /\ tasks.t[n].pc = "sleep"
    /\ tasks' = [tasks EXCEPT !.t[n].pc = "stream",
                              !.t[n].backoff = Min(@ * 2, BackoffCap)]
    /\ UNCHANGED runRest

\* gather (return_exceptions is not set) hands the exception of a task to
\* amain, amain has no handler, asyncio.run cancels what is left
GatherRaises ==
    /\ tasks.proc = "running"
    /\ \E n \in Nodes : tasks.t[n].pc = "raised"
    /\ tasks' = [proc |-> "failed",
                 t |-> [n \in Nodes |->
                         IF tasks.t[n].pc = "raised" THEN tasks.t[n]
                         ELSE [tasks.t[n] EXCEPT !.pc = "cancelled"]]]
    /\ UNCHANGED runRest

NextRun ==
    \/ \E n \in Nodes, o \in {"ok", "unverified", "raise"} : RunEnsure(n, o)
    \/ \E n \in Nodes, raised \in BOOLEAN : StreamStops(n, raised)
    \/ \E n \in Nodes : BackoffOver(n)
    \/ GatherRaises

SpecRun == Init0(K1, A1) /\ [][NextRun]_vars

\* C21: no failure of a node ends its watcher task, the tasks of the other
\* watchers, or the process.
C21_AsStated ==
    /\ tasks.proc = "running"
    /\ \A n \in Nodes : tasks.t[n].pc \in {"ensure", "stream", "sleep"}

(***************************************************************************)
(* C22: the result of ban_ip, checked under SpecShot.                      *)
(***************************************************************************)
\* C22: when ban_ip returns true, the address is an element of the node's
\* timed set.
C22_AsStated ==
    (ret.op = "ban_ip" /\ ret.ok) => ret.ip \in kset[ret.node]

(***************************************************************************)
(* SpecRemote: one caller (a watcher, a worker, the start-up check) issues *)
(* remote commands over ssh one after the other and awaits each.  The node *)
(* answers, is unreachable (ssh gives up by ConnectTimeout or by its       *)
(* ServerAlive probes), or is hung: the connection stays alive and the     *)
(* command never finishes.                                                 *)
(***************************************************************************)
MaxOps == 4         \* commands the caller issues
\* the remote operations of the engine: ensure_rule and its verification,
\* _apply_batch, ban_ip, is_banned, unban_ip, check_firewall_status, run_ssh
EngineKinds ==
    {"ensure", "verify", "batch", "ban", "test", "unban", "status", "reboot"}
\* the connectivity probe goes through _ssh_run_capture
RemoteKinds == EngineKinds \cup {"probe"}
Remotes == {"answers", "unreachable", "hung"}

\* the await is wrapped in asyncio.wait_for
HasWaitFor(kind) == kind = "probe"

remoteRest == <<storeVars, histVars, ret, fwVars, watchVars,
                host, fd, fdh, hk, stats, boot, tasks, pl, nb, att, sl,
                callers, race, unb>>

\* create_subprocess_exec(ssh ...), then await communicate() or wait()
Issue(kind, remote) ==
    /\ rop.pc = "idle"
    /\ rop.done < MaxOps
    /\ rop' = [rop EXCEPT !.pc = "awaiting", !.kind = kind,
                          !.remote = remote]
    /\ UNCHANGED remoteRest

\* the remote command finishes and ssh exits with its status
RemoteAnswers(rc) ==
    /\ rop.pc = "awaiting"
    /\ rop.remote = "answers"
    /\ rop' = [rop EXCEPT !.pc = "idle", !.done = @ + 1, !.rc = rc]
    /\ UNCHANGED remoteRest

\* ssh exits with 255: ConnectTimeout=8, ServerAliveInterval=30 x 3
SshGivesUp ==
    /\ rop.pc = "awaiting"
    /\ rop.remote = "unreachable"
    /\ rop' = [rop EXCEPT !.pc = "idle", !.done = @ + 1, !.rc = 255]
    /\ UNCHANGED remoteRest

\* _ssh_run_capture: asyncio.TimeoutError, proc.kill(), return 998
WaitForExpires ==
    /\ rop.pc = "awaiting"
    /\ HasWaitFor(rop.kind)
    /\ rop' = [rop EXCEPT !.pc = "idle", !.done = @ + 1, !.rc = 998]
    /\ UNCHANGED remoteRest

NextRemote ==
    \/ \E kind \in RemoteKinds, remote \in Remotes : Issue(kind, remote)
    \/ \E rc \in {0, 1} : RemoteAnswers(rc)
    \/ SshGivesUp
    \/ WaitForExpires

\* the event loop runs whatever is ready: an exited process and an expired
\* timer are always delivered
SpecRemote ==
    /\ Init0(K1, A1)
    /\ [][NextRemote]_vars
    /\ WF_vars(\E rc \in {0, 1} : RemoteAnswers(rc))
    /\ WF_vars(SshGivesUp)
    /\ WF_vars(WaitForExpires)

\* C23: every remote operation of the engine that is awaited comes back to
\* its caller.
C23_AsStated ==
    (rop.pc = "awaiting" /\ rop.kind \in EngineKinds) ~> (rop.pc = "idle")

(***************************************************************************)
(* SpecParse: parse_line applied to access-log lines.  The lines are built *)
(* from the fields of an xray access line, each present in one of its      *)
(* forms or missing:                                                       *)
(*   from <source> accepted|rejected <destination> [<label>] email: <user> *)
(***************************************************************************)
User == <<"42.alice">>
Sources ==
    {<<Field("addr4", <<"203.0.113.5">>)>>,
     <<Field("addr6", <<"2001:db8::1">>)>>,
     <<Field("word", <<"tcp:client.example:48290">>)>>}
Verdicts == {<<Field("accepted", <<>>)>>, <<Field("rejected", <<>>)>>}
Destinations ==
    {<<Field("word", <<"tcp:example.com:443">>)>>,
     <<Field("word", <<"tcp:">>), Field("br", <<"2001:db8::2">>)>>}
Labels ==
    {<<Field("br", <<"VMESS_TCP", "->", "IPv4">>)>>,
     <<Field("br", <<"VMESS_TCP", ">>", "relay", "->", "IPv4">>)>>,
     <<Field("br", <<"VMESS_TCP">>)>>,
     <<>>}
Emails == {<<Field("email:", <<>>), Field("word", User)>>, <<>>}

parseRest == <<storeVars, histVars, ret, fwVars, watchVars,
               host, fd, fdh, hk, stats, boot, tasks, rop, nb, att, sl,
               callers, race, unb>>

\* the stream yields a line
ReadLine(src, verdict, dst, label, email) ==
    /\ pl.parsed \/ pl.line = <<>>
    /\ pl' = [line |-> <<Field("from", <<>>)>> \o src \o verdict \o dst
                          \o label \o email,
              parsed |-> FALSE, out |-> NoMatch]
    /\ UNCHANGED parseRest

\* email, ip, inbound = parse_line(line)
ParseCall ==
    /\ ~pl.parsed /\ pl.line # <<>>
    /\ pl' = [pl EXCEPT !.parsed = TRUE, !.out = parse_line(pl.line)]
    /\ UNCHANGED parseRest

NextParse ==
    \/ \E src \in Sources, verdict \in Verdicts, dst \in Destinations,
          label \in Labels, email \in Emails :
          ReadLine(src, verdict, dst, label, email)
    \/ ParseCall

SpecParse == Init0(K1, A1) /\ [][NextParse]_vars

\* what the line carries: its source address, the text of its inbound
\* label, its user; <<>> for what it lacks
SourceOf(line) ==
    IF line[2].k \in {"addr4", "addr6"} THEN line[2].v ELSE <<>>
LabelOf(line) ==
    LET at == {i \in 1..Len(line) :
                 line[i].k = "br" /\ "VMESS_TCP" \in Range(line[i].v)}
    IN  IF at = {} THEN <<>> ELSE line[CHOOSE i \in at : TRUE].v
UserOf(line) ==
    IF line[Len(line)].k = "word" /\ line[Len(line) - 1].k = "email:"
    THEN line[Len(line)].v ELSE <<>>
Accepted(line) == \E i \in 1..Len(line) : line[i].k = "accepted"
Carries(line) ==
    Accepted(line) /\ SourceOf(line) # <<>> /\ LabelOf(line) # <<>>
        /\ UserOf(line) # <<>>

\* C24: for an accepted line that carries a source address, an inbound
\* label and a user, parse_line returns the user, the address and the words
\* of the label in front of its first arrow; for any other line it returns
\* nothing.
C24_AsStated ==
    pl.parsed =>
        IF Carries(pl.line)
        THEN /\ pl.out.found
             /\ pl.out.email = UserOf(pl.line)
             /\ pl.out.ip = SourceOf(pl.line)
             /\ pl.out.inbound = <<"VMESS_TCP">>
        ELSE pl.out = NoMatch

(***************************************************************************)
(* SpecBatch: the batcher alone.  A ban event is handed to it, or a second *)
(* passes; the watcher handles every event it is handed, and the clock     *)
(* runs, but nothing obliges a further ban to be detected.                 *)
(***************************************************************************)
batchRest == <<storeVars, histVars, ret, fwVars, watchVars,
               host, fd, fdh, hk, stats, boot, tasks, rop, pl, att, sl,
               callers, race, unb>>

\* _add_ban_to_batch(ip, email, inbound): append; return unless
\* should_flush; else snapshot, clear, stamp and send (a failed send is
\* logged and the snapshot is gone)
AddBanToBatch(delivered) ==
    /\ nb.handed < MaxEvents
    /\ LET e     == nb.handed + 1
           batch == Append(nb._ban_batch, e)
       IN IF ShouldFlush(batch, nb.since)
          THEN nb' = [_ban_batch |-> BatchAfterFlush(batch),
                      since      |-> 0,
                      handed     |-> e,
                      sent       |-> IF delivered THEN Append(nb.sent, batch)
                                     ELSE nb.sent]
          ELSE nb' = [nb EXCEPT !._ban_batch = batch, !.handed = e]
    /\ UNCHANGED batchRest

\* time.time() advances by a second
SecondPasses ==
    /\ nb.since < BanBatchWindow
    /\ nb' = [nb EXCEPT !.since = @ + 1]
    /\ UNCHANGED batchRest

NextBatch ==
    \/ \E delivered \in BOOLEAN : AddBanToBatch(delivered)
    \/ SecondPasses

SpecBatch == Init /\ [][NextBatch]_vars /\ WF_vars(SecondPasses)

\* the messages an event is listed in
MessagesOf(e) == {i \in 1..Len(nb.sent) : \E j \in 1..Len(nb.sent[i]) : nb.sent[i][j] = e}

\* C25: every ban event handed to the batcher is eventually in a message
\* sent to the operator, also when no further ban event follows it.
C25_AsStated ==
    \A e \in 1..MaxEvents : (nb.handed >= e) ~> (MessagesOf(e) # {})

\* the events listed in the messages sent so far, message after message
RECURSIVE Flatten(_)
Flatten(ms) == IF ms = <<>> THEN <<>> ELSE Head(ms) \o Flatten(Tail(ms))

Listed == Flatten(nb.sent)

\* C26: every ban event handed to the batcher is listed in at most one
\* message sent to the operator, once in it, and every message lists its
\* events in the order of their detection.
C26_OnceAndInOrder ==
    /\ LET f == Listed
       IN \A j, k \in 1..Len(f) : j < k => f[j] # f[k]
    /\ \A i \in 1..Len(nb.sent) :
          \A j \in 1..(Len(nb.sent[i]) - 1) : nb.sent[i][j] < nb.sent[i][j + 1]

\* two messages were sent, one of them listing several events
C26_Witness ==
    /\ Len(nb.sent) >= 2
    /\ \E i \in 1..Len(nb.sent) : Len(nb.sent[i]) >= 2

\* a step of SpecFd that issues the reboot command
IssuesReboot == Len(fdh'.issued) > Len(fdh.issued)

\* C27: the reboot command is issued only by a fd_unreadable sentinel that
\* finds a reboot scheduled by an earlier sentinel at least GRACE before,
\* and issuing it leaves the counter at zero, the window starting now and
\* nothing scheduled.
C27_RebootAfterGrace ==
    [][IssuesReboot =>
          /\ FdUnreadableLine
          /\ fd._fd_reboot_scheduled_at # 0
          /\ fd.now - fd._fd_reboot_scheduled_at >= GRACE
          /\ fd'._fd_unreadable_count = 0
          /\ fd'._fd_window_start = fd.now
          /\ fd'._fd_reboot_scheduled_at = 0]_vars

\* C27 witness: a reboot command was just issued, a full grace after its
\* announcement
C27_Witness ==
    /\ Len(fdh.issued) >= 1
    /\ fd._fd_last_reboot = fd.now
    /\ fd._fd_reboot_scheduled_at = 0
    /\ fd._fd_unreadable_count = 0

(***************************************************************************)
(* SpecAttach: the stream of one node over the life of the process: the    *)
(* wrapper finds the xray process and follows it, the stream or the        *)
(* followed process is lost, the wrapper follows again.                    *)
(***************************************************************************)
MaxAttaches == 3

attachRest == <<storeVars, histVars, ret, fwVars, watchVars,
                host, fdh, hk, stats, boot, tasks, rop, pl, nb, sl, callers,
                race, unb>>

\* a '[guardian-stream] follow pid=' line read by run: the recovery branch
\* is taken only while _up_notified is unset
FollowSentinel ==
    /\ ~att.following
    /\ att.attaches < MaxAttaches
    /\ IF ~fd._up_notified
       THEN /\ fd' = Attached(fd)
            /\ att' = [following |-> TRUE, attaches |-> att.attaches + 1,
                       notices |-> att.notices + 1]
       ELSE /\ fd' = fd
            /\ att' = [att EXCEPT !.following = TRUE, !.attaches = @ + 1]
    /\ UNCHANGED attachRest

\* the stream ends or the followed process exits: run's loop goes on with
\* the same watcher object
StreamLost ==
    /\ att.following
    /\ att' = [att EXCEPT !.following = FALSE]
    /\ UNCHANGED <<fd, attachRest>>

\* time.time() advances
AttachMinute ==
    /\ fd.now < MaxNow
    /\ fd' = [fd EXCEPT !.now = @ + 1]
    /\ UNCHANGED <<att, attachRest>>

NextAttach == FollowSentinel \/ StreamLost \/ AttachMinute

SpecAttach == Init0(K1, A1) /\ [][NextAttach]_vars

\* C28: every attach of the node was answered by exactly one "attached"
\* notification: as many notices as attaches.
C28_AsStated == att.notices = att.attaches

(***************************************************************************)
(* SpecStream: the loop of stream_logs for one node: probe when the streak *)
(* is positive, launch the stream, and account for its end.                *)
(***************************************************************************)
streamRest == <<storeVars, histVars, ret, fwVars, watchVars,
                host, fd, fdh, hk, stats, boot, tasks, rop, pl, nb, att,
                callers, race, unb>>

\* top of the loop with failure_streak > 0: _diagnose_connectivity; a
\* failed probe adds to the streak, sleeps min(30, 2*streak) and continues
Probe(ok) ==
    /\ sl.pc = "top"
    /\ sl.failure_streak > 0
    /\ sl.failure_streak < MaxStreak
    /\ sl' = IF ok THEN [sl EXCEPT !.pc = "streaming", !.slept = 0]
             ELSE [sl EXCEPT !.failure_streak = @ + 1,
                             !.slept = Min(30, 2 * (sl.failure_streak + 1))]
    /\ UNCHANGED streamRest

\* top of the loop with failure_streak = 0: the stream is launched at once
Launch ==
    /\ sl.pc = "top"
    /\ sl.failure_streak = 0
    /\ sl' = [sl EXCEPT !.pc = "streaming", !.slept = 0]
    /\ UNCHANGED streamRest

\* the finally block: the stream is over with this status and uptime
StreamEnds(rc, uptime) ==
    /\ sl.pc = "streaming"
    /\ sl.failure_streak < MaxStreak
    /\ sl' = [pc |-> "top",
              failure_streak |-> StreakAfter(sl.failure_streak, rc, uptime),
              slept |-> 4, rc |-> rc, uptime |-> uptime]
    /\ UNCHANGED streamRest

NextStream ==
    \/ \E ok \in BOOLEAN : Probe(ok)
    \/ Launch
    \/ \E rc \in ExitStatuses, uptime \in Uptimes : StreamEnds(rc, uptime)

SpecStream == Init0(K1, A1) /\ [][NextStream]_vars

\* C29: a stream that ends before ShortUptime adds one to the failure
\* streak and one that ends later resets it, whatever its exit status.
C29_AsStated ==
    [][\A rc \in ExitStatuses, uptime \in Uptimes :
          StreamEnds(rc, uptime) =>
             IF uptime < ShortUptime
             THEN sl'.failure_streak = sl.failure_streak + 1
             ELSE sl'.failure_streak = 0]_vars

(***************************************************************************)
(* SpecCache: _RULE_ENSURED under the callers of ensure_rule.  In this     *)
(* specification ensured holds keys; ret is the last attempt.              *)
(***************************************************************************)
cacheRest == <<pending, inflight, wpc, kset, storeVars, histVars, watchVars,
               host, fd, fdh, hk, stats, boot, tasks, rop, pl, nb, att, sl,
               race, unb>>

\* what an ensure_rule call leaves in ret
Attempt(n, force, outcome) ==
    [op |-> "ensure_rule", node |-> n, key |-> KeyOf(n), force |-> force,
     outcome |-> outcome]

\* main, one turn of the startup loop: the node's firewall is in order, or
\* ensure_rule(spec, force=True) is called; an exception is logged
StartupCheck(status_ok) ==
    /\ callers.phase = "startup"
    /\ callers.next <= Len(ConfiguredNodes)
    /\ LET n == ConfiguredNodes[callers.next]
       IN IF status_ok
          THEN UNCHANGED <<ensured, ret>>
          ELSE \E o \in EnsureOutcomes(ensured, KeyOf(n), TRUE) :
                  /\ ensured' = ensure_rule(ensured, KeyOf(n), TRUE, o)
                  /\ ret' = Attempt(n, TRUE, o)
    /\ callers' = [callers EXCEPT !.next = @ + 1]
    /\ UNCHANGED cacheRest

\* main: the loop is over, the watchers are started
StartupOver ==
    /\ callers.phase = "startup"
    /\ callers.next > Len(ConfiguredNodes)
    /\ callers' = [callers EXCEPT !.phase = "running"]
    /\ UNCHANGED <<ensured, ret, cacheRest>>

\* NodeWatcher.run, schedule_ban or the worker: ensure_rule(spec)
PlainEnsure(n) ==
    /\ callers.phase = "running"
    /\ \E o \in EnsureOutcomes(ensured, KeyOf(n), FALSE) :
          /\ ensured' = ensure_rule(ensured, KeyOf(n), FALSE, o)
          /\ ret' = Attempt(n, FALSE, o)
    /\ UNCHANGED <<callers, cacheRest>>

\* force_ensure_all_nodes and the operator's "fix firewall":
\* _RULE_ENSURED.discard(key), then ensure_rule(spec, force=True)
DiscardAndEnsure(n) ==
    /\ callers.phase = "running"
    /\ \E o \in EnsureOutcomes(ensured \ {KeyOf(n)}, KeyOf(n), TRUE) :
          /\ ensured' = ensure_rule(ensured \ {KeyOf(n)}, KeyOf(n), TRUE, o)
          /\ ret' = Attempt(n, TRUE, o)
    /\ UNCHANGED <<callers, cacheRest>>

NextCache ==
    \/ \E status_ok \in BOOLEAN : StartupCheck(status_ok)
    \/ StartupOver
    \/ \E i \in 1..Len(ConfiguredNodes) : PlainEnsure(ConfiguredNodes[i])
    \/ \E i \in 1..Len(ConfiguredNodes) : DiscardAndEnsure(ConfiguredNodes[i])

SpecCache == Init0(K1, A1) /\ [][NextCache]_vars

\* C30: after an ensure_rule attempt whose verification failed, forced or
\* not, the node's key is not in _RULE_ENSURED.
C30_AsStated ==
    (ret.op = "ensure_rule" /\ ret.outcome = "failed") => ret.key \notin ensured

(***************************************************************************)
(* SpecRace: ensure_rule(n1) called by two watchers before the node is     *)
(* cached, on an iptables node whose ssh_user is root.  A task yields at   *)
(* each await; its remote shell runs one command at a time.                *)
(***************************************************************************)
raceRest == <<pending, inflight, wpc, kset, storeVars, histVars, watchVars,
              ret, fd, fdh, hk, stats, boot, tasks, rop, pl, nb, att, sl,
              callers, unb>>

\* ensure_rule: `if not force and key in _RULE_ENSURED: return`, else the
\* inner script starts: the sets are created if missing
RaceCall(t) ==
    /\ race[t].pc = "call"
    /\ IF "n1" \in ensured
       THEN /\ race' = [race EXCEPT ![t].pc = "done"]
            /\ host' = host
       ELSE /\ race' = [race EXCEPT ![t].pc = "test"]
            /\ host' = CreateSets(host)
    /\ UNCHANGED <<ensured, raceRest>>

\* inner script: $IPT -C chain rule
RaceTest(t) ==
    /\ race[t].pc = "test"
    /\ LET s == ScriptSteps(host)[race[t].step]
       IN race' = [race EXCEPT ![t].pc = "insert",
                               ![t].miss = ~IptCheck(host, s.f, s.c, RuleOf[s.pos])]
    /\ UNCHANGED <<host, ensured, raceRest>>

\* inner script: || $SUDO $IPT -I chain pos rule, then the next rule
RaceInsert(t) ==
    /\ race[t].pc = "insert"
    /\ LET s == ScriptSteps(host)[race[t].step]
       IN host' = IF race[t].miss
                  THEN [host EXCEPT !.chains[s.f][s.c] = Insert(@, s.pos, RuleOf[s.pos])]
                  ELSE host
    /\ race' = [race EXCEPT ![t].pc = IF race[t].step = Len(ScriptSteps(host))
                                      THEN "verify" ELSE "test",
                            ![t].step = IF race[t].step = Len(ScriptSteps(host))
                                        THEN @ ELSE @ + 1,
                            ![t].miss = FALSE]
    /\ UNCHANGED <<ensured, raceRest>>

\* verify_script and the add to _RULE_ENSURED
RaceVerify(t) ==
    /\ race[t].pc = "verify"
    /\ host' = VerifyScript(host)
    /\ ensured' = IF Verified(host) THEN ensured \cup {"n1"} ELSE ensured
    /\ race' = [race EXCEPT ![t].pc = "done"]
    /\ UNCHANGED raceRest

NextRace ==
    \E t \in EnsureTasks : RaceCall(t) \/ RaceTest(t) \/ RaceInsert(t) \/ RaceVerify(t)

InitRaceNode ==
    /\ InitCore(K1, A1)
    /\ \E d \in BOOLEAN :
          host = [NoHost EXCEPT !.backend = "IPTABLES", !.root = TRUE, !.docker = d]

SpecRace == InitRaceNode /\ [][NextRace]_vars

\* C31: whatever the interleaving of the concurrent ensure_rule calls, no
\* chain of the node holds a rule twice.
C31_AsStated ==
    \A f \in Families, c \in Chains : NoRuleTwice(host.chains[f][c])

(***************************************************************************)
(* SpecBackend: ensure_rule called against a node with iptables or with    *)
(* nft only, with or without the chain DOCKER-USER, no rules at first.     *)
(***************************************************************************)
InitBackend ==
    /\ InitCore(K1, A1)
    /\ \E b \in {"IPTABLES", "NFT"}, r, d \in BOOLEAN :
          host = [NoHost EXCEPT !.backend = b, !.root = r, !.docker = d]

SpecBackend == InitBackend /\ [][NextEnsure]_vars

\* the three rules are in the chain c for the family f
HasAllRules(h, f, c) == \A pos \in 1..3 : RuleOf[pos] \in Range(h.chains[f][c])

\* C32: once ensure_rule has run its scripts on a node without DOCKER-USER,
\* INPUT and FORWARD each hold the TCP reject, the UDP reject and the drop
\* rule, with nft as with iptables.
C32_AsStated ==
    (host.ran /\ ~host.docker) =>
        \A f \in Families : HasAllRules(host, f, "INPUT") /\ HasAllRules(host, f, "FORWARD")

(***************************************************************************)
(* C33: add_ip as the watchers call it, checked under Spec.                *)
(***************************************************************************)
\* the positions of a watcher inside add_ip
InAddIp == {"pipe", "zrange", "zrem", "zscore"}

\* add_ip of the watcher n returns in this step, no other call being open
AddIpReturns(n) ==
    /\ w[n].pc \in InAddIp
    /\ w'[n].pc \notin InAddIp
    /\ \A m \in Nodes \ {n} : w[m].pc \notin InAddIp

\* the addresses run() got as evicted from the call that returns (its own
\* address, which run() skips, is counted as returned)
EvictedTo(n) ==
    {w[n].ip} \cup (IF w'[n].pc = "check"
                    THEN {w'[n].cur} \cup Range(w'[n].ev) ELSE {})

\* C33: when an add_ip call returns, also from an except clause, its slot
\* holds at most limit addresses, and what the call removed from the slot
\* it returned as evicted.
C33_AsStated ==
    [][\A n \in Nodes :
          AddIpReturns(n) =>
             /\ Cardinality(ZMembers(zset'[w[n].key])) <= LimitOf(w[n].key)
             /\ (ZMembers(zset[w[n].key]) \ ZMembers(zset'[w[n].key]))
                   \subseteq EvictedTo(n)]_vars

\* C34: the flag add_ip returns is true exactly when the address was not
\* in the slot before the call (checked under SpecStore).
C34_AsStated ==
    ret.op = "add_ip" => (ret.flag <=> ret.ip \notin ret.before)

(***************************************************************************)
(* SpecRecover: the stream of SpecAttach together with the fd_unreadable   *)
(* sentinels, which the wrapper prints while it cannot follow the process. *)
(***************************************************************************)
\* a '[guardian-stream] fd_unreadable' line: counted, then
\* _maybe_reboot_for_fd
FdSentinel ==
    /\ ~att.following
    /\ fd._fd_unreadable_count < MaxCount
    /\ fd' = MaybeReboot(Counted(fd))
    /\ UNCHANGED <<att, attachRest>>

NextRecover == NextAttach \/ FdSentinel

SpecRecover == Init0(K1, A1) /\ [][NextRecover]_vars

\* C35: every follow sentinel the watcher reads leaves the fd_unreadable
\* counter at zero and no reboot scheduled, the first of the process and
\* every later one.
C35_AsStated ==
    [][FollowSentinel =>
          /\ fd'._fd_unreadable_count = 0
          /\ fd'._fd_reboot_scheduled_at = 0]_vars

(***************************************************************************)
(* SpecHealth: ensure_rule and the status probe against one node, as the   *)
(* startup check and the operator's menu call them.                        *)
(***************************************************************************)
\* check_firewall_status(spec): reads the node, changes nothing
StatusProbe ==
    /\ ret' = check_firewall_status(host)
    /\ UNCHANGED <<host, ensured, ensureRest>>

NextHealth == NextEnsure \/ StatusProbe

SpecHealth == InitBackend /\ [][NextHealth]_vars

\* C36: on an iptables node with DOCKER-USER that ensure_rule has verified
\* and cached, the status probe answers ok.
C36_AsStated ==
    (/\ ret.op = "check_firewall_status"
     /\ host.backend = "IPTABLES" /\ host.docker
     /\ "n1" \in ensured)
        => ret.ok

(***************************************************************************)
(* SpecUnban: schedule_ban and the worker of n1, and the operator's unban  *)
(* of an address on the whole fleet.  unb holds the addresses whose unban  *)
(* has completed and that no later schedule_ban has named.                 *)
(***************************************************************************)
unbanRest == <<host, fd, fdh, hk, stats, boot, tasks, rop, pl, nb, att, sl,
               callers, race>>

UnbanAddrs == {A1, A2}

\* the watcher of a node bans an evicted address on the node n
ScheduleEvicted(n, ip, outcome) ==
    /\ ScheduleBanCore(n, ip, BanSeconds, outcome)
    /\ unb' = unb \ {ip}
    /\ UNCHANGED unbanRest

\* _perform_unban: unban_ip on every node (gathered), then unmark_banned;
\* reached is the set of nodes whose command could be spawned
PerformUnban(ip, reached, storeOk) ==
    /\ kset' = [n \in Nodes |-> IF n \in reached /\ ip_address_ok(ip)
                                THEN kset[n] \ {ip} ELSE kset[n]]
    /\ banned' = IF storeOk THEN Delete(banned, ip) ELSE banned
    /\ unb' = IF reached = Nodes /\ storeOk /\ ip_address_ok(ip)
              THEN unb \cup {ip} ELSE unb
    /\ ret' = [op |-> "perform_unban", ip |-> ip]
    /\ UNCHANGED <<pending, inflight, wpc, ensured, zset, clock, rnow,
                   histVars, watchVars, unbanRest>>

NextUnban ==
    \/ \E n \in FwNodes, ip \in UnbanAddrs :
          \E o \in EnsureOutcomes(ensured, n, FALSE) : ScheduleEvicted(n, ip, o)
    \/ \E n \in FwNodes : Worker(n)
    \/ \E ip \in UnbanAddrs, reached \in SUBSET Nodes, storeOk \in BOOLEAN :
          PerformUnban(ip, reached, storeOk)

SpecUnban == Init0(K1, A1) /\ [][NextUnban]_vars

\* C37: an address whose unban has completed is in the timed set of no
\* node, until a later schedule_ban names it again.
C37_AsStated ==
    \A ip \in unb : \A n \in Nodes : ip \notin kset[n]

(***************************************************************************)
(* SpecLive: schedule_ban and the worker of n1 on a node whose batch       *)
(* commands all succeed.  The worker is weakly fair: it drains when the    *)
(* slot is not empty and its command ends.  Nothing obliges or forbids     *)
(* further schedule_ban calls.                                             *)
(***************************************************************************)
NextLive ==
    \/ \E n \in FwNodes, ip \in FwAddrs, seconds \in Ttls :
          \E o \in EnsureOutcomes(ensured, n, FALSE) :
              ScheduleBanCall(n, ip, seconds, o)
    \/ \E n \in FwNodes : Drain(n)
    \/ \E n \in FwNodes : ApplyOk(n, TRUE)

SpecLive ==
    /\ InitFw /\ [][NextLive]_vars
    /\ WF_vars(Drain("n1")) /\ WF_vars(ApplyOk("n1", TRUE))

\* C38: an address that schedule_ban accepted on n1 is eventually in a
\* batch the worker submits.
C38_AsStated ==
    \A ip \in FwAddrs :
        (ip \in PendingIps(pending["n1"])) ~> (ip \in BatchIps("n1"))

(***************************************************************************)
(* SpecDrop: schedule_ban and the worker on a node whose set tool takes    *)
(* every payload it is given, so that a batch command that exits zero has  *)
(* put its addresses in the kernel set.  The command may also exit         *)
(* non-zero, and _apply_batch may raise before or while running it.        *)
(***************************************************************************)
NextDrop ==
    \/ \E n \in FwNodes, ip \in FwAddrs, seconds \in Ttls :
          \E o \in EnsureOutcomes(ensured, n, FALSE) :
              ScheduleBanCall(n, ip, seconds, o)
    \/ \E n \in FwNodes : Drain(n)
    \/ \E n \in FwNodes : ApplyOk(n, TRUE)
    \/ \E n \in FwNodes : ApplyFail(n)
    \/ \E n \in FwNodes : ApplyRaise(n)

SpecDrop == InitFw /\ [][NextDrop]_vars

\* C39: when the worker of a node is done with a drained batch, every address
\* of the batch was submitted by a command that exited zero (it is in the
\* kernel set) or is back in the pending slot of that node.
C39_AsStated ==
    [][\A n \in FwNodes :
          (wpc[n] = "apply" /\ wpc'[n] = "wait")
              => \A ip \in BatchIps(n) :
                     ip \in kset'[n] \/ ip \in PendingIps(pending'[n])]_vars
(***************************************************************************)
(* SpecOwn: the watchers of both nodes read lines of one user on an        *)
(* inbound whose limit is 0 and on an inbound whose limit is 1, and handle *)
(* them up to the notification.  With the limit 0 add_ip trims the whole   *)
(* slot, the address of the line included.                                 *)
(***************************************************************************)
OwnKeys == {K0, K1}

NextOwn ==
    \/ \E n \in Nodes, key \in OwnKeys, ip \in LineAddrs : Line(n, key, ip)
    \/ \E n \in Nodes : Handle(n)

SpecOwn == Init /\ [][NextOwn]_vars

\* C40: a watcher that is about to call schedule_ban or mark_banned while it
\* handles a line calls it for an address other than the one on the line.
C40_NeverBansOwnAddress ==
    \A n \in Nodes : w[n].pc \in {"fan", "mark"} => w[n].cur # w[n].ip

\* with the limit 0 the watcher is banning an older address while the
\* address of its line is still among the evicted ones it has to go through
C40_Witness ==
    \E n \in Nodes :
        /\ LimitOf(w[n].key) = 0
        /\ w[n].pc = "mark"
        /\ w[n].ip \in Range(w[n].ev)
====
